---- MODULE Spec2Model ----
(***************************************************************************)
(* Organization matching and email-format inference pipeline.              *)
(*                                                                         *)
(* Strings are TLA+ strings; a character is a string of length 1.  Python  *)
(* None is the string None, a missing pandas value (NaN) is the string NaN;*)
(* neither can be produced from the character data of the inputs.  Scores  *)
(* are integers in hundredths (1.0 is 100).                                *)
(***************************************************************************)
EXTENDS Integers, Sequences, FiniteSets, TLC

VARIABLES
    org_name,       \* create_facility_key / match_facility argument
    city,           \* "
    state,          \* "
    other_org,      \* a second organization name keyed with the same city/state
    facility_key,   \* create_facility_key(org_name, city, state), or NotYet
    other_key,      \* create_facility_key(other_org, city, state), or NotYet
    reloaded_key,   \* the key load_email_formats stores for facility_key
    email_formats,  \* the format table: an ordered dict, as a sequence of entries
    first_name,     \* the row's authorized official
    last_name,      \* "
    op,             \* the operation that ran last
    match_result,   \* what match_facility returned: <<>> for None, else <<result>>
    tiers_tried,    \* the tiers match_facility went through, in order
    similarities,   \* the similarity tier's scores, one per candidate of the bucket
    result,         \* what process_single_record returned
    fragments,      \* the pieces the snippet text is made of
    text,           \* extract_formats_from_text_improved argument
    extracted,      \* the list it returned
    results,        \* the entries of the search results file
    serper_formats, \* what extract_formats_from_serper_results returned
    format_template, \* generate_email argument email_format
    domain_name,    \* generate_email argument domain
    generated,      \* what generate_email returned, or NotYet
    admin_df,       \* process_admin_data: the rows with their output columns
    n_workers,      \* the number of processes of the pool
    cosine,         \* the scores cosine_similarity gives the batch's candidates
    row_data,       \* the tasks of the pool: chunks of (idx, row) pairs
    taken,          \* per chunk the worker that took it, 0 when it is queued
    outputs,        \* per chunk the results its worker has computed so far
    batch_results,  \* results, the list pool.imap delivered
    applied,        \* the number of results applied to admin_df
    stats,          \* the statistics of the batch
    email_local,    \* infer_format_from_local_part argument local_part
    inferred_format, \* what it returned, or NotYet
    cache_file,     \* serper_cache.json: facility -> result data
    cache,          \* the cache dict of main, shared with the worker threads
    unique_facilities, \* the facilities to search
    max_workers,    \* the number of threads of the executor
    futures,        \* per submitted task its state and, once done, its result
    api_requests,   \* the queries sent to the search API, in order
    search_output,  \* main's list results
    api_calls,      \* main's counter of new results
    cache_hits,     \* main's counter of cached results
    serper_api_key, \* email_agent: SERPER_API_KEY is set
    openai_client,  \* email_agent: client is not None
    self_cache,     \* EmailDiscoveryAgent.cache
    email_cache_file, \* email_cache.json
    searches_count, \* EmailDiscoveryAgent.searches_count
    api_calls_count, \* EmailDiscoveryAgent.api_calls_count
    web_searches,   \* the search requests sent, each with the cache key of its call
    facility_name,  \* discover_email argument (city and state are the other two)
    discovered      \* what discover_email returned: <<>> before the first call

key_vars == <<org_name, city, state, other_org, facility_key, other_key, reloaded_key>>
match_vars == <<email_formats, first_name, last_name, op, match_result, tiers_tried,
                similarities, result>>

extract_vars == <<fragments, text, extracted>>

serper_vars == <<results, serper_formats>>

generate_vars == <<format_template, domain_name, generated>>

batch_vars == <<admin_df, n_workers, cosine, row_data, taken, outputs, batch_results,
                applied, stats>>

infer_vars == <<email_local, inferred_format>>

collect_vars == <<cache_file, cache, unique_facilities, max_workers, futures,
                  api_requests, search_output, api_calls, cache_hits>>

agent_vars == <<serper_api_key, openai_client, self_cache, email_cache_file,
                searches_count, api_calls_count, web_searches, facility_name, discovered>>

vars == <<key_vars, match_vars, extract_vars, serper_vars, generate_vars, batch_vars,
          infer_vars, collect_vars, agent_vars>>

None == "<None>"
NaN == "<NaN>"
NotYet == "<not yet>"

-----------------------------------------------------------------------------
(* Characters and Python's str methods                                     *)

LowerAlpha == "abcdefghijklmnopqrstuvwxyz"
UpperAlpha == "ABCDEFGHIJKLMNOPQRSTUVWXYZ"
DigitAlpha == "0123456789"

\* the character at index i (from 1), "" outside the string
Ch(s, i) == IF 1 <= i /\ i <= Len(s) THEN SubSeq(s, i, i) ELSE ""

CharsOf(s) == {Ch(s, i) : i \in 1..Len(s)}

LowerSet == CharsOf(LowerAlpha)
UpperSet == CharsOf(UpperAlpha)
DigitSet == CharsOf(DigitAlpha)
Whitespace == {" ", "\t", "\n", "\r"}

ToUpper == [c \in LowerSet |-> Ch(UpperAlpha, CHOOSE i \in 1..Len(LowerAlpha) : Ch(LowerAlpha, i) = c)]
ToLower == [c \in UpperSet |-> Ch(LowerAlpha, CHOOSE i \in 1..Len(UpperAlpha) : Ch(UpperAlpha, i) = c)]

Min(S) == CHOOSE x \in S : \A y \in S : x <= y
Max(S) == CHOOSE x \in S : \A y \in S : y <= x

UpperAt(s, i) == IF Ch(s, i) \in LowerSet THEN ToUpper[Ch(s, i)] ELSE Ch(s, i)
LowerAt(s, i) == IF Ch(s, i) \in UpperSet THEN ToLower[Ch(s, i)] ELSE Ch(s, i)

\* the concatenation of UpperAt(s, i), or LowerAt(s, i), for i = lo .. hi
\* (halving keeps the evaluation shallow)
RECURSIVE MapCase(_, _, _, _)
MapCase(to_upper, s, lo, hi) ==
    IF lo > hi THEN ""
    ELSE IF lo = hi THEN (IF to_upper THEN UpperAt(s, lo) ELSE LowerAt(s, lo))
    ELSE MapCase(to_upper, s, lo, (lo + hi) \div 2)
            \o MapCase(to_upper, s, (lo + hi) \div 2 + 1, hi)

upper(s) == MapCase(TRUE, s, 1, Len(s))
lower(s) == MapCase(FALSE, s, 1, Len(s))

NonSpace(s) == {i \in 1..Len(s) : Ch(s, i) \notin Whitespace}

lstrip(s) == IF NonSpace(s) = {} THEN "" ELSE SubSeq(s, Min(NonSpace(s)), Len(s))
rstrip(s) == IF NonSpace(s) = {} THEN "" ELSE SubSeq(s, 1, Max(NonSpace(s)))
strip(s) == IF NonSpace(s) = {} THEN "" ELSE SubSeq(s, Min(NonSpace(s)), Max(NonSpace(s)))

StartsWith(s, p) == Len(s) >= Len(p) /\ SubSeq(s, 1, Len(p)) = p

\* s.find(sub): the start of the first occurrence of sub in s, 0 when there is none
find(s, sub) ==
    LET hits == {i \in 1..(Len(s) - Len(sub) + 1) : SubSeq(s, i, i + Len(sub) - 1) = sub}
    IN  IF hits = {} THEN 0 ELSE Min(hits)

\* str.replace(old, new): non-overlapping occurrences, left to right
RECURSIVE replace(_, _, _)
replace(s, old, new) ==
    LET i == find(s, old)
    IN  IF i = 0 THEN s
        ELSE SubSeq(s, 1, i - 1) \o new \o replace(SubSeq(s, i + Len(old), Len(s)), old, new)

\* ' '.join(s.split()): whitespace runs become one space, none at the ends
JoinSplitAt(s, i) ==
    IF Ch(s, i) \notin Whitespace THEN Ch(s, i)
    ELSE IF i > 1 /\ Ch(s, i - 1) \notin Whitespace THEN " " ELSE ""

RECURSIVE JoinSplitRange(_, _, _)
JoinSplitRange(s, lo, hi) ==
    IF lo > hi THEN ""
    ELSE IF lo = hi THEN JoinSplitAt(s, lo)
    ELSE JoinSplitRange(s, lo, (lo + hi) \div 2) \o JoinSplitRange(s, (lo + hi) \div 2 + 1, hi)

JoinSplit(s) == JoinSplitRange(strip(s), 1, Len(strip(s)))

\* s.rfind(sep): the start of the last occurrence of sep in s, 0 when there is none
rfind(s, sep) ==
    LET hits == {i \in 1..(Len(s) - Len(sep) + 1) : SubSeq(s, i, i + Len(sep) - 1) = sep}
    IN  IF hits = {} THEN 0 ELSE Max(hits)

\* s.rsplit(sep, 2): at most two splits, taken from the right
rsplit2(s, sep) ==
    LET i == rfind(s, sep)
    IN  IF i = 0 THEN <<s>>
        ELSE LET head == SubSeq(s, 1, i - 1)
                 last == SubSeq(s, i + Len(sep), Len(s))
                 j == rfind(head, sep)
             IN  IF j = 0 THEN <<head, last>>
                 ELSE <<SubSeq(head, 1, j - 1), SubSeq(head, j + Len(sep), Len(head)), last>>

\* pd.isna(v): true of NaN and of None
isna(v) == v \in {NaN, None}

\* str(v) of a cell value: NaN prints as "nan", None as "None"
str(v) == IF v = NaN THEN "nan" ELSE IF v = None THEN "None" ELSE v

-----------------------------------------------------------------------------
(* Key normalizer                                                          *)

\* the replacements dict with the ' INC.' entry spelling the suffix out
replacements_Expanding == <<
    <<" INC.", " INCORPORATED">>, <<" INC,", " INC">>,
    <<" LLC.", " LLC">>, <<" LLC,", " LLC">>,
    <<" P.C.", " PC">>, <<" P.C,", " PC">>,
    <<" P.A.", " PA">>, <<" P.A,", " PA">>,
    <<" L.L.C.", " LLC">>, <<" L.L.C", " LLC">>,
    <<" L.P.", " LP">>, <<" PLLC.", " PLLC">>,
    <<",", "">>, <<".", "">> >>

\* the replacements dict, in insertion order
replacements == <<
    <<" INC.", " INC">>, <<" INC,", " INC">>,
    <<" LLC.", " LLC">>, <<" LLC,", " LLC">>,
    <<" P.C.", " PC">>, <<" P.C,", " PC">>,
    <<" P.A.", " PA">>, <<" P.A,", " PA">>,
    <<" L.L.C.", " LLC">>, <<" L.L.C", " LLC">>,
    <<" L.P.", " LP">>, <<" PLLC.", " PLLC">>,
    <<",", "">>, <<".", "">> >>

RECURSIVE ApplyReplacements(_, _)
ApplyReplacements(name, i) ==
    IF i > Len(replacements) THEN name
    ELSE ApplyReplacements(replace(name, replacements[i][1], replacements[i][2]), i + 1)

\* normalize_org_name with the general ',' and '.' removals forgotten
normalize_org_name_SuffixesOnly(name) ==
    IF isna(name) THEN ""
    ELSE LET suffixes == SubSeq(replacements, 1, Len(replacements) - 2)
             up == strip(upper(str(name)))
             RECURSIVE Go(_, _)
             Go(n, i) == IF i > Len(suffixes) THEN n
                         ELSE Go(replace(n, suffixes[i][1], suffixes[i][2]), i + 1)
         IN  JoinSplit(Go(up, 1))

normalize_org_name(name) ==
    IF isna(name) THEN ""
    ELSE JoinSplit(ApplyReplacements(strip(upper(str(name))), 1))

\* the key is built when the three normalized parts are all truthy (non-empty)
JoinKey(org_norm, city_norm, state_norm) ==
    IF org_norm # "" /\ city_norm # "" /\ state_norm # ""
    THEN org_norm \o ", " \o city_norm \o ", " \o state_norm
    ELSE None

\* create_facility_key with the city and state uppercased but not trimmed
create_facility_key_NoStrip(org, c, s) ==
    JoinKey(normalize_org_name(org),
            IF ~isna(c) THEN upper(str(c)) ELSE "",
            IF ~isna(s) THEN upper(str(s)) ELSE "")

create_facility_key(org, c, s) ==
    JoinKey(normalize_org_name(org),
            IF ~isna(c) THEN strip(upper(str(c))) ELSE "",
            IF ~isna(s) THEN strip(upper(str(s))) ELSE "")

\* the key normalized again from its parts: None when they are not three
KeyOfParts(parts) ==
    IF Len(parts) = 3 THEN create_facility_key(parts[1], parts[2], parts[3]) ELSE None

\* load_email_formats, one stored key: None when the key is dropped
NormalizeStoredKey(key) == KeyOfParts(rsplit2(key, ", "))

-----------------------------------------------------------------------------
(* Inputs of the key normalizer                                            *)

Bases == {"Acme Health"}
IncForms == {" Inc", " Inc.", ", Inc.", " INC,"}
PcForms == {" PC", " P.C.", ", P.C.", " P.C,"}
LlcForms == {" LLC", " L.L.C.", " L.L.C", " llc.", ", LLC,"}
SuffixFamilies == {IncForms, PcForms, LlcForms}

\* names whose punctuation sits inside the name, within and across the suffix patterns
PunctuatedNames ==
    {"Mercy P.A., L.P.", "U.S. Care PLLC.", "Acme L.L.Care, Inc.,Ltd", "a l.l.c.. p.c,llc."}

OrgNames ==
    {b \o f : b \in Bases, f \in UNION SuffixFamilies}
    \cup Bases
    \cup PunctuatedNames
    \cup {"  acme   health ", "St. Luke's", ".", " , ", "", " ", NaN}

\* the second name: the base name under every suffix form
OtherOrgNames == {b \o f : b \in Bases, f \in UNION SuffixFamilies} \cup Bases

Cities == {"Springfield", " springfield ", "Springfield, East", " ", NaN}
States == {"IL", " il", "", NaN}

-----------------------------------------------------------------------------
(* Specification of the key normalizer: the inputs are drawn in Init, the  *)
(* actions apply create_facility_key and load_email_formats' normalization *)

\* the parts of the state a specification does not use stay as they are here
KeyIdle ==
    /\ other_org = NaN
    /\ other_key = NotYet
    /\ reloaded_key = NotYet

MatchIdle ==
    /\ email_formats = <<>>
    /\ first_name = NaN
    /\ last_name = NaN
    /\ match_result = <<>>
    /\ tiers_tried = <<>>
    /\ similarities = <<>>
    /\ result = <<>>

ExtractIdle ==
    /\ fragments = <<>>
    /\ text = ""
    /\ extracted = <<>>

SerperIdle ==
    /\ results = <<>>
    /\ serper_formats = <<>>

GenerateIdle ==
    /\ format_template = ""
    /\ domain_name = ""
    /\ generated = NotYet

BatchIdle ==
    /\ admin_df = <<>>
    /\ n_workers = 0
    /\ cosine = <<>>
    /\ row_data = <<>>
    /\ taken = <<>>
    /\ outputs = <<>>
    /\ batch_results = <<>>
    /\ applied = 0
    /\ stats = <<>>

InferIdle ==
    /\ email_local = ""
    /\ inferred_format = NotYet

CollectIdle ==
    /\ cache_file = <<>>
    /\ cache = <<>>
    /\ unique_facilities = <<>>
    /\ max_workers = 0
    /\ futures = <<>>
    /\ api_requests = <<>>
    /\ search_output = <<>>
    /\ api_calls = 0
    /\ cache_hits = 0

AgentIdle ==
    /\ serper_api_key = FALSE
    /\ openai_client = FALSE
    /\ self_cache = <<>>
    /\ email_cache_file = <<>>
    /\ searches_count = 0
    /\ api_calls_count = 0
    /\ web_searches = <<>>
    /\ facility_name = ""
    /\ discovered = <<>>

InitKey ==
    /\ org_name \in OrgNames
    /\ other_org \in OtherOrgNames
    /\ city \in Cities
    /\ state \in States
    /\ facility_key = NotYet
    /\ other_key = NotYet
    /\ reloaded_key = NotYet
    /\ op = "key"
    /\ MatchIdle
    /\ ExtractIdle
    /\ SerperIdle
    /\ GenerateIdle
    /\ BatchIdle
    /\ InferIdle
    /\ CollectIdle
    /\ AgentIdle

CreateFacilityKey ==
    /\ facility_key = NotYet
    /\ facility_key' = create_facility_key(org_name, city, state)
    /\ other_key' = create_facility_key(other_org, city, state)
    /\ UNCHANGED <<org_name, city, state, other_org, reloaded_key,
                   match_vars, extract_vars, serper_vars, generate_vars, batch_vars,
                   infer_vars, collect_vars, agent_vars>>

ReloadKey ==
    /\ facility_key \notin {NotYet, None}
    /\ reloaded_key = NotYet
    /\ reloaded_key' = NormalizeStoredKey(facility_key)
    /\ UNCHANGED <<org_name, city, state, other_org, facility_key, other_key, match_vars,
                   extract_vars, serper_vars, generate_vars, batch_vars, infer_vars,
                   collect_vars, agent_vars>>

NextKey == CreateFacilityKey \/ ReloadKey

SpecKey == InitKey /\ [][NextKey]_vars

\* a cell that is missing, or empty once its whitespace is trimmed
MissingOrBlank(v) == isna(v) \/ strip(v) = ""

UpperTrimmed(v) == strip(upper(v))

\* C7: key normalization is idempotent: a key K returned by
\* create_facility_key, split from the right on ", " and normalized again as
\* load_email_formats does, is K again.
C7_ReloadedKeyIsSame ==
    reloaded_key # NotYet => reloaded_key = facility_key

\* C8: two organization names that differ only in the punctuation variant of
\* a corporate suffix get equal facility keys for the same city and state.
C8_SuffixVariantsSameKey ==
    facility_key # NotYet =>
        \A fam \in SuffixFamilies : \A b \in Bases :
            (\E f1 \in fam, f2 \in fam : org_name = b \o f1 /\ other_org = b \o f2)
                => facility_key = other_key

C8_Witness ==
    /\ org_name = "Acme Health, Inc."
    /\ other_org = "Acme Health Inc"
    /\ facility_key = "ACME HEALTH INC, SPRINGFIELD, IL"
    /\ other_key = facility_key

\* C9 as stated: the key is null when the organization name, the city or the
\* state is missing or empty after trimming, and otherwise it is
\* "<NORMALIZED_ORG>, <CITY>, <STATE>" with city and state uppercased and trimmed.
C9_NullOnlyWhenMissingOrBlank ==
    facility_key # NotYet =>
        IF MissingOrBlank(org_name) \/ MissingOrBlank(city) \/ MissingOrBlank(state)
        THEN facility_key = None
        ELSE facility_key = normalize_org_name(org_name) \o ", " \o UpperTrimmed(city)
                                \o ", " \o UpperTrimmed(state)

\* C9 amended: the key is null when the normalized organization name is empty
\* (the name is missing, or holds nothing but whitespace, '.' and ','), or the
\* city or the state is missing or empty after trimming; otherwise it is
\* "<NORMALIZED_ORG>, <CITY>, <STATE>" with city and state uppercased and trimmed.
C9_NullWhenNormalizedPartEmpty ==
    facility_key # NotYet =>
        IF \/ isna(org_name)
           \/ CharsOf(org_name) \subseteq Whitespace \cup {".", ","}
           \/ MissingOrBlank(city)
           \/ MissingOrBlank(state)
        THEN facility_key = None
        ELSE facility_key = normalize_org_name(org_name) \o ", " \o UpperTrimmed(city)
                                \o ", " \o UpperTrimmed(state)

C9_Witness ==
    /\ org_name = "Acme Health, Inc."
    /\ city = " springfield "
    /\ state = " il"
    /\ facility_key = "ACME HEALTH INC, SPRINGFIELD, IL"

\* s with every character of chars deleted, one character at a time
RECURSIVE DeleteChars(_, _)
DeleteChars(s, chars) ==
    IF s = "" THEN ""
    ELSE (IF SubSeq(s, 1, 1) \in chars THEN "" ELSE SubSeq(s, 1, 1))
            \o DeleteChars(SubSeq(s, 2, Len(s)), chars)

\* the simpler normalizer: uppercase and trim, delete '.' and ',', collapse whitespace
SimpleNormalize(name) ==
    IF isna(name) THEN ""
    ELSE JoinSplit(DeleteChars(strip(upper(str(name))), {".", ","}))

\* the normalized forms of the names keys are built from, computed once
Normalized == [name \in OrgNames |-> normalize_org_name(name)]

\* C30: normalize_org_name gives, for every name, what the simpler function gives
\* that uppercases and trims the name, deletes every '.' and ',' and collapses
\* whitespace (a missing name gives "" either way), so the suffix substitutions
\* never change the result; the output contains no '.' and no ',', normalizing
\* it again returns it unchanged, and it is the organization part of the key.
C30_EquivalentToSimpleNormalizer ==
    facility_key # NotYet =>
        /\ Normalized[org_name] = SimpleNormalize(org_name)
        /\ DeleteChars(Normalized[org_name], {".", ","}) = Normalized[org_name]
        /\ normalize_org_name(Normalized[org_name]) = Normalized[org_name]
        /\ facility_key # None =>
              facility_key = SimpleNormalize(org_name) \o ", " \o UpperTrimmed(city)
                                \o ", " \o UpperTrimmed(state)

C30_Witness ==
    /\ org_name = "Acme L.L.Care, Inc.,Ltd"
    /\ city = "Springfield"
    /\ state = "IL"
    /\ facility_key = "ACME LLCARE INCLTD, SPRINGFIELD, IL"

-----------------------------------------------------------------------------
(* Email generator                                                         *)

\* re.sub(r'[^a-z]', '', s)
KeepLowerAt(s, i) == IF Ch(s, i) \in LowerSet THEN Ch(s, i) ELSE ""
RECURSIVE KeepLowerRange(_, _, _)
KeepLowerRange(s, lo, hi) ==
    IF lo > hi THEN ""
    ELSE IF lo = hi THEN KeepLowerAt(s, lo)
    ELSE KeepLowerRange(s, lo, (lo + hi) \div 2) \o KeepLowerRange(s, (lo + hi) \div 2 + 1, hi)

\* the cleaning that takes a non-letter as the end of the name
KeepLowerLetters_UpToSeparator(s) ==
    IF \A i \in 1..Len(s) : Ch(s, i) \in LowerSet THEN s
    ELSE SubSeq(s, 1, Min({i \in 1..Len(s) : Ch(s, i) \notin LowerSet}) - 1)

KeepLowerLetters(s) == KeepLowerRange(s, 1, Len(s))

\* the format applied, with [first].[last] for a template that is not known
ApplyFormat_DefaultTemplate(first, last, email_format, domain) ==
    IF first = "" \/ last = "" THEN None
    ELSE CASE email_format = "[first_initial][last]" -> Ch(first, 1) \o last \o "@" \o domain
           [] email_format = "[first][last_initial]" -> first \o Ch(last, 1) \o "@" \o domain
           [] email_format = "[first]" -> first \o "@" \o domain
           [] email_format = "[last]" -> last \o "@" \o domain
           [] email_format = "[first]_[last]" -> first \o "_" \o last \o "@" \o domain
           [] email_format = "[first]-[last]" -> first \o "-" \o last \o "@" \o domain
           [] email_format = "[first][last]" -> first \o last \o "@" \o domain
           [] OTHER -> first \o "." \o last \o "@" \o domain

\* the format applied to the cleaned names
ApplyFormat(first, last, email_format, domain) ==
    IF first = "" \/ last = "" THEN None
    ELSE CASE email_format = "[first].[last]" -> first \o "." \o last \o "@" \o domain
           [] email_format = "[first_initial][last]" -> Ch(first, 1) \o last \o "@" \o domain
           [] email_format = "[first][last_initial]" -> first \o Ch(last, 1) \o "@" \o domain
           [] email_format = "[first]" -> first \o "@" \o domain
           [] email_format = "[last]" -> last \o "@" \o domain
           [] email_format = "[first]_[last]" -> first \o "_" \o last \o "@" \o domain
           [] email_format = "[first]-[last]" -> first \o "-" \o last \o "@" \o domain
           [] email_format = "[first][last]" -> first \o last \o "@" \o domain
           [] OTHER -> None

\* generate_email with the two names taken in the wrong order
generate_email_Swapped(first_nm, last_nm, email_format, domain) ==
    IF isna(first_nm) \/ isna(last_nm) \/ first_nm = "" \/ last_nm = "" THEN None
    ELSE ApplyFormat(KeepLowerLetters(lower(strip(str(last_nm)))),
                     KeepLowerLetters(lower(strip(str(first_nm)))), email_format, domain)

generate_email(first_nm, last_nm, email_format, domain) ==
    IF isna(first_nm) \/ isna(last_nm) \/ first_nm = "" \/ last_nm = "" THEN None
    ELSE ApplyFormat(KeepLowerLetters(lower(strip(str(first_nm)))),
                     KeepLowerLetters(lower(strip(str(last_nm)))), email_format, domain)

-----------------------------------------------------------------------------
(* Format table and facility matcher                                       *)

\* FacilityMatcher's default threshold, 0.85, and the score 1.0 of the
\* exact tiers, in hundredths
Threshold == 85
ScoreOne == 100

\* a Python dict keeps insertion order: a sequence of entries with distinct keys
DictKeys(d) == {d[i].key : i \in 1..Len(d)}
DictGet(d, k) == d[CHOOSE i \in 1..Len(d) : d[i].key = k]
DictPut(d, e) ==
    IF e.key \in DictKeys(d)
    THEN [i \in 1..Len(d) |-> IF d[i].key = e.key THEN e ELSE d[i]]
    ELSE Append(d, e)

\* the loop body of load_email_formats: the item is stored under its
\* normalized key, or dropped when it has none
LoadItem(normalized_formats, key, value, normalized_key) ==
    IF normalized_key # None
    THEN DictPut(normalized_formats, [key |-> normalized_key, original_key |-> key,
                                      format |-> value.format, domain |-> value.domain])
    ELSE normalized_formats

\* load_email_formats: the raw file is a sequence of <<key, value>> items
RECURSIVE load_email_formats(_)
load_email_formats(formats) ==
    IF formats = <<>> THEN <<>>
    ELSE LoadItem(load_email_formats(SubSeq(formats, 1, Len(formats) - 1)),
                  formats[Len(formats)][1], formats[Len(formats)][2],
                  NormalizeStoredKey(formats[Len(formats)][1]))

\* the buckets keyed by state alone: the city of the stored key is not compared
Candidates_StateOnly(formats, location) ==
    LET RECURSIVE Go(_)
        Go(i) ==
            IF i > Len(formats) THEN <<>>
            ELSE LET parts == rsplit2(formats[i].key, ", ")
                 IN  IF Len(parts) = 3 /\ parts[3] = (rsplit2("x, " \o location, ", "))[3]
                     THEN <<[key |-> formats[i].key, org_name |-> parts[1]]>> \o Go(i + 1)
                     ELSE Go(i + 1)
    IN  Go(1)

\* FacilityMatcher.__init__: facilities_by_location[location], the
\* candidates of one location in table order
Candidates(formats, location) ==
    LET RECURSIVE Go(_)
        Go(i) ==
            IF i > Len(formats) THEN <<>>
            ELSE LET parts == rsplit2(formats[i].key, ", ")
                 IN  IF Len(parts) = 3 /\ parts[2] \o ", " \o parts[3] = location
                     THEN <<[key |-> formats[i].key, org_name |-> parts[1]]>> \o Go(i + 1)
                     ELSE Go(i + 1)
    IN  Go(1)

\* the keys of facilities_by_location
Locations(formats) ==
    {(rsplit2(formats[i].key, ", "))[2] \o ", " \o (rsplit2(formats[i].key, ", "))[3] :
        i \in {j \in 1..Len(formats) : Len(rsplit2(formats[j].key, ", ")) = 3}}

\* np.argmax: the first index of the maximum
argmax(scores) ==
    CHOOSE i \in 1..Len(scores) :
        /\ \A j \in 1..Len(scores) : scores[j] <= scores[i]
        /\ \A j \in 1..(i - 1) : scores[j] < scores[i]

MatchLocation(c, s) == strip(upper(str(c))) \o ", " \o strip(upper(str(s)))

Matched(key, type, score, formats) ==
    <<[matched_key |-> key, match_type |-> type, match_score |-> score,
       format_info |-> DictGet(formats, key)]>>

\* the acceptance test with a strict comparison
AboveThreshold_Strict(best_score, threshold) == best_score > threshold

\* the similarity tier's acceptance test
AboveThreshold(best_score, threshold) == best_score >= threshold

\* tiers 2 and 3 on the candidates of the input's location; sims are the
\* scores that cosine_similarity gives them
BucketTiers(candidates, normalized_org, formats, threshold, sims) ==
    LET equal == {i \in 1..Len(candidates) : candidates[i].org_name = normalized_org}
    IN  IF equal # {}
        THEN [ret |-> Matched(candidates[Min(equal)].key, "fuzzy_exact", ScoreOne, formats),
              tiers |-> <<"exact", "fuzzy_exact">>]
        ELSE [ret |-> IF AboveThreshold(sims[argmax(sims)], threshold)
                      THEN Matched(candidates[argmax(sims)].key, "tfidf",
                                   sims[argmax(sims)], formats)
                      ELSE <<>>,
              tiers |-> <<"exact", "fuzzy_exact", "tfidf">>]

\* the later tiers without the early return for a location that has no
\* bucket: the similarity tier is entered with no candidates
FuzzyTiers_NoEarlyReturn(formats, threshold, org, c, s, sims) ==
    IF MatchLocation(c, s) \notin Locations(formats)
    THEN [ret |-> <<>>, tiers |-> <<"exact", "fuzzy_exact", "tfidf">>]
    ELSE BucketTiers(Candidates(formats, MatchLocation(c, s)),
                     normalize_org_name(org), formats, threshold, sims)

\* match_facility from the location lookup on
FuzzyTiers(formats, threshold, org, c, s, sims) ==
    IF MatchLocation(c, s) \notin Locations(formats)
    THEN [ret |-> <<>>, tiers |-> <<"exact">>]
    ELSE BucketTiers(Candidates(formats, MatchLocation(c, s)),
                     normalize_org_name(org), formats, threshold, sims)

\* tier 1: the exact key is looked up; the later tiers run when it is not there
ExactTier(exact_key, formats, later_tiers) ==
    IF exact_key \in DictKeys(formats)
    THEN [ret |-> Matched(exact_key, "exact", ScoreOne, formats), tiers |-> <<"exact">>]
    ELSE later_tiers

\* match_facility with the exact tier tried last instead of first
match_facility_ExactLast(formats, threshold, org, c, s, sims) ==
    LET exact_key == create_facility_key(org, c, s)
        fuzzy == FuzzyTiers(formats, threshold, org, c, s,
                            IF sims = <<>>
                            THEN [i \in 1..Len(Candidates(formats, MatchLocation(c, s))) |-> 0]
                            ELSE sims)
    IN  IF fuzzy.ret # <<>> THEN fuzzy
        ELSE IF exact_key \in DictKeys(formats)
             THEN [ret |-> Matched(exact_key, "exact", ScoreOne, formats),
                   tiers |-> fuzzy.tiers \o <<"exact">>]
             ELSE fuzzy

\* match_facility with the exact tier looking up the key of the name as it
\* was typed (uppercased and trimmed, its punctuation kept)
match_facility_RawExactKey(formats, threshold, org, c, s, sims) ==
    ExactTier(JoinKey(IF isna(org) THEN "" ELSE strip(upper(str(org))),
                      IF isna(c) THEN "" ELSE strip(upper(str(c))),
                      IF isna(s) THEN "" ELSE strip(upper(str(s)))),
              formats, FuzzyTiers(formats, threshold, org, c, s, sims))

\* FacilityMatcher(formats, threshold).match_facility(org, c, s): the value
\* returned and the tiers gone through
match_facility(formats, threshold, org, c, s, sims) ==
    ExactTier(create_facility_key(org, c, s), formats,
              FuzzyTiers(formats, threshold, org, c, s, sims))

\* the candidates when none of them has the normalized name, else none
Unequal(candidates, normalized_org) ==
    IF \E i \in 1..Len(candidates) : candidates[i].org_name = normalized_org
    THEN <<>>
    ELSE candidates

\* the candidates the similarity tier scores: none when an earlier tier returns
ScoredCandidates(formats, org, c, s) ==
    IF create_facility_key(org, c, s) \in DictKeys(formats) THEN <<>>
    ELSE Unequal(Candidates(formats, MatchLocation(c, s)), normalize_org_name(org))

\* cosine_similarity of the TF-IDF vectors is library code: any score vector
Scores == {0, Threshold - 1, Threshold, ScoreOne}
SimilarityChoices(formats, org, c, s) ==
    [1..Len(ScoredCandidates(formats, org, c, s)) -> Scores]

NoResult == [facility_key |-> None, matched_facility |-> None, match_type |-> None,
             match_score |-> None, generated_email |-> None,
             email_format_used |-> None, email_domain |-> None]

\* the end of process_single_record with the format and the domain of the
\* match written whether or not an e-mail was generated
Annotate_FormatAlways(res, match, format_info, email) ==
    [NoResult EXCEPT !.facility_key = res.facility_key,
                     !.matched_facility = match.matched_key,
                     !.match_type = match.match_type,
                     !.match_score = match.match_score,
                     !.generated_email = email,
                     !.email_format_used = format_info.format,
                     !.email_domain = format_info.domain]

\* the end of process_single_record with the generated e-mail written but
\* not the format and the domain it was made from
Annotate_EmailOnly(res, match, format_info, email) ==
    [NoResult EXCEPT !.facility_key = res.facility_key,
                     !.matched_facility = match.matched_key,
                     !.match_type = match.match_type,
                     !.match_score = match.match_score,
                     !.generated_email = email]

\* the end of process_single_record: the fields of the match, and the
\* e-mail fields when an e-mail was generated
Annotate(res, match, format_info, email) ==
    [NoResult EXCEPT !.facility_key = res.facility_key,
                     !.matched_facility = match.matched_key,
                     !.match_type = match.match_type,
                     !.match_score = match.match_score,
                     !.generated_email = email,
                     !.email_format_used = IF email # None THEN format_info.format ELSE None,
                     !.email_domain = IF email # None THEN format_info.domain ELSE None]

\* process_single_record once the key is there; m is what match_facility gave
Annotated(res, m, row) ==
    IF m.ret = <<>> THEN [result |-> res, ret |-> m.ret, tiers |-> m.tiers]
    ELSE [result |-> Annotate(res, m.ret[1], m.ret[1].format_info,
                              generate_email(row.first, row.last,
                                             m.ret[1].format_info.format,
                                             m.ret[1].format_info.domain)),
          ret |-> m.ret, tiers |-> m.tiers]

\* the key decides whether the matcher is called at all
KeyGate(key, annotated) ==
    IF key = None
    THEN [result |-> [NoResult EXCEPT !.facility_key = key], ret |-> <<>>, tiers |-> <<>>]
    ELSE annotated

process_single_record(row, formats, threshold, sims) ==
    KeyGate(create_facility_key(row.org, row.city, row.state),
            Annotated([NoResult EXCEPT
                          !.facility_key = create_facility_key(row.org, row.city, row.state)],
                      match_facility(formats, threshold, row.org, row.city, row.state, sims),
                      row))

-----------------------------------------------------------------------------
(* Inputs of the matcher                                                   *)

\* the items a formats file may hold, each key with its value
RawItems == {
    <<"ACME HEALTH, SPRINGFIELD, IL", [format |-> "[first].[last]", domain |-> "acme.com"]>>,
    <<"Acme Health, Inc., Springfield, IL", [format |-> "[first_initial][last]", domain |-> "acmeinc.com"]>>,
    <<"ACME HEALTH INC, Springfield, IL", [format |-> "[first]", domain |-> "acme.org"]>>,
    <<"Acme Health, Shelbyville, IL", [format |-> "[last]", domain |-> "acme.net"]>>,
    <<"Acme Heath Inc, Springfield, IL", [format |-> "[first]_[last]", domain |-> "heath.com"]>>,
    <<"Acme Health Springfield IL", [format |-> "[first]", domain |-> "nokey.com"]>> }

\* the number of items of a formats file
MaxItems == 2

RECURSIVE SeqsOfDistinct(_, _)
SeqsOfDistinct(S, n) ==
    IF n = 0 THEN {<<>>}
    ELSE LET shorter == SeqsOfDistinct(S, n - 1)
         IN  shorter \cup {Append(q, x) : q \in {r \in shorter : Len(r) = n - 1}, x \in S}

RawFiles ==
    {f \in SeqsOfDistinct(RawItems, MaxItems) :
        \A i \in 1..Len(f) : \A j \in 1..Len(f) : i # j => f[i][1] # f[j][1]}

MatchOrgs == {"Acme Health, Inc.", "Acme Health", "Acme Hlth Inc", NaN}
MatchCities == {"Springfield", " shelbyville", NaN}
MatchStates == {"IL", NaN}
OfficialNames == {<<"Jane", "Doe">>, <<"Jane", NaN>>}

-----------------------------------------------------------------------------
(* Specification of the matcher: the format table is loaded once, then     *)
(* records are matched against it                                          *)

InitMatch ==
    /\ org_name = NaN
    /\ city = NaN
    /\ state = NaN
    /\ facility_key = NotYet
    /\ op = "start"
    /\ KeyIdle
    /\ MatchIdle
    /\ ExtractIdle
    /\ SerperIdle
    /\ GenerateIdle
    /\ BatchIdle
    /\ InferIdle
    /\ CollectIdle
    /\ AgentIdle

\* main: email_formats = load_email_formats(args.formats_file)
LoadEmailFormats ==
    /\ op = "start"
    /\ \E f \in RawFiles : email_formats' = load_email_formats(f)
    /\ op' = "load"
    /\ UNCHANGED <<key_vars, first_name, last_name, match_result, tiers_tried,
                   similarities, result, extract_vars, serper_vars, generate_vars, batch_vars,
                   infer_vars, collect_vars, agent_vars>>

\* a call of FacilityMatcher(email_formats, threshold).match_facility; a call
\* leaves the table and the matcher as they were, so one call is followed here
MatchFacility ==
    /\ op = "load"
    /\ \E o \in MatchOrgs, c \in MatchCities, s \in MatchStates :
         \E sims \in SimilarityChoices(email_formats, o, c, s) :
            \E m \in {match_facility(email_formats, Threshold, o, c, s, sims)} :
                /\ org_name' = o
                /\ city' = c
                /\ state' = s
                /\ match_result' = m.ret
                /\ tiers_tried' = m.tiers
                /\ similarities' = sims
    /\ op' = "match"
    /\ facility_key' = NotYet
    /\ result' = <<>>
    /\ first_name' = NaN
    /\ last_name' = NaN
    /\ UNCHANGED <<other_org, other_key, reloaded_key, email_formats, extract_vars,
                   serper_vars, generate_vars, batch_vars, infer_vars, collect_vars,
                   agent_vars>>

\* a call of process_single_record on one row
ProcessSingleRecord ==
    /\ op = "load"
    /\ \E o \in MatchOrgs, c \in MatchCities, s \in MatchStates, nm \in OfficialNames :
         \E sims \in SimilarityChoices(email_formats, o, c, s) :
            \E r \in {process_single_record(
                        [org |-> o, city |-> c, state |-> s, first |-> nm[1], last |-> nm[2]],
                        email_formats, Threshold, sims)} :
                /\ org_name' = o
                /\ city' = c
                /\ state' = s
                /\ first_name' = nm[1]
                /\ last_name' = nm[2]
                /\ facility_key' = r.result.facility_key
                /\ result' = <<r.result>>
                /\ match_result' = r.ret
                /\ tiers_tried' = r.tiers
                /\ similarities' = IF r.tiers = <<>> THEN <<>> ELSE sims
    /\ op' = "process"
    /\ UNCHANGED <<other_org, other_key, reloaded_key, email_formats, extract_vars,
                   serper_vars, generate_vars, batch_vars, infer_vars, collect_vars,
                   agent_vars>>

NextMatch == LoadEmailFormats \/ MatchFacility \/ ProcessSingleRecord

SpecMatch == InitMatch /\ [][NextMatch]_vars

\* a call of match_facility was made (directly, or by process_single_record)
Called == tiers_tried # <<>>

ExactKey == create_facility_key(org_name, city, state)

\* C2: when the normalized facility key of the input is a key of the table,
\* match_facility returns that key with match_type 'exact' and score 1.0,
\* whatever else is in the bucket, and the later tiers are gone through only
\* after the exact tier failed.
C2_ExactTierFirst ==
    Called =>
        /\ tiers_tried[1] = "exact"
        /\ ExactKey \in DictKeys(email_formats) =>
              /\ tiers_tried = <<"exact">>
              /\ match_result = <<[matched_key |-> ExactKey, match_type |-> "exact",
                                   match_score |-> ScoreOne,
                                   format_info |-> DictGet(email_formats, ExactKey)]>>
        /\ Len(tiers_tried) > 1 => ExactKey \notin DictKeys(email_formats)

\* the exact key is in the table beside a very similar name of the same bucket
C2_Witness ==
    /\ op = "match"
    /\ org_name = "Acme Health, Inc."
    /\ DictKeys(email_formats) = {"ACME HEALTH INC, SPRINGFIELD, IL", "ACME HEATH INC, SPRINGFIELD, IL"}
    /\ match_result # <<>>
    /\ match_result[1].match_type = "exact"
    /\ match_result[1].matched_key = "ACME HEALTH INC, SPRINGFIELD, IL"

\* the end-to-end scenario of C3: the table holds only the key
\* "ACME HEALTH, SPRINGFIELD, IL" and the record is Jane Doe of "Acme Health, Inc."
C3_Scenario ==
    /\ op = "process"
    /\ Len(email_formats) = 1
    /\ email_formats[1].key = "ACME HEALTH, SPRINGFIELD, IL"
    /\ email_formats[1].format = "[first].[last]"
    /\ email_formats[1].domain = "acme.com"
    /\ org_name = "Acme Health, Inc."
    /\ city = "Springfield"
    /\ state = "IL"
    /\ first_name = "Jane"
    /\ last_name = "Doe"

\* C3 as stated: the record is matched through the fuzzy_exact tier with
\* score 1.0 and gets the email "jane.doe@acme.com".
C3_MatchedByFuzzyExact ==
    C3_Scenario =>
        /\ result[1].match_type = "fuzzy_exact"
        /\ result[1].match_score = ScoreOne
        /\ result[1].generated_email = "jane.doe@acme.com"

\* C3 amended: the record is matched by neither the exact nor the fuzzy_exact
\* tier (its normalized name "ACME HEALTH INC" is not the stored "ACME HEALTH");
\* it reaches the similarity tier, and is matched (match_type 'tfidf', the
\* similarity as score) with the email "jane.doe@acme.com" exactly when the
\* similarity of the two names reaches the threshold; otherwise it is
\* unmatched and gets no email.
C3_MatchedOnlyBySimilarity ==
    C3_Scenario =>
        /\ result[1].facility_key = "ACME HEALTH INC, SPRINGFIELD, IL"
        /\ tiers_tried = <<"exact", "fuzzy_exact", "tfidf">>
        /\ Len(similarities) = 1
        /\ IF similarities[1] >= Threshold
           THEN /\ result[1].match_type = "tfidf"
                /\ result[1].match_score = similarities[1]
                /\ result[1].matched_facility = "ACME HEALTH, SPRINGFIELD, IL"
                /\ result[1].generated_email = "jane.doe@acme.com"
                /\ result[1].email_format_used = "[first].[last]"
                /\ result[1].email_domain = "acme.com"
           ELSE /\ result[1].match_type = None
                /\ result[1].matched_facility = None
                /\ result[1].generated_email = None

C3_Witness ==
    /\ C3_Scenario
    /\ similarities[1] >= Threshold
    /\ result[1].match_type = "tfidf"
    /\ result[1].generated_email = "jane.doe@acme.com"

\* C4: a non-null result of match_facility, of any tier, names a key of the
\* input's location: the key ends with ", CITY, STATE", the input's city and
\* state uppercased and trimmed.
C4_MatchedKeySameLocation ==
    (Called /\ match_result # <<>>) =>
        LET parts == rsplit2(match_result[1].matched_key, ", ")
        IN  /\ Len(parts) = 3
            /\ parts[2] = UpperTrimmed(str(city))
            /\ parts[3] = UpperTrimmed(str(state))

\* a record of Springfield matched by similarity while the table also holds
\* the same organization in Shelbyville
C4_Witness ==
    /\ Called
    /\ match_result # <<>>
    /\ match_result[1].match_type = "tfidf"
    /\ city = "Springfield"
    /\ "ACME HEALTH, SHELBYVILLE, IL" \in DictKeys(email_formats)
    /\ match_result[1].matched_key = "ACME HEALTH, SPRINGFIELD, IL"

SimilarityTierRan == Called /\ tiers_tried[Len(tiers_tried)] = "tfidf"

\* C5: in the similarity tier the result is the maximum-similarity candidate
\* of the bucket (match_type 'tfidf', the similarity as score) if and only if
\* that score is at least the threshold; a best score equal to the threshold
\* is accepted, a lower one gives null.
C5_ThresholdInclusive ==
    SimilarityTierRan =>
        LET bucket == Candidates(email_formats, MatchLocation(city, state))
            best == CHOOSE x \in {similarities[i] : i \in 1..Len(similarities)} :
                        \A i \in 1..Len(similarities) : similarities[i] <= x
        IN  /\ Len(similarities) = Len(bucket)
            /\ match_result # <<>> <=> best >= Threshold
            /\ match_result # <<>> =>
                  /\ match_result[1].match_type = "tfidf"
                  /\ match_result[1].match_score = best
                  /\ \E i \in 1..Len(bucket) :
                        /\ bucket[i].key = match_result[1].matched_key
                        /\ similarities[i] = best

C5_Witness ==
    /\ SimilarityTierRan
    /\ Len(similarities) = 2
    /\ similarities[1] = Threshold - 1
    /\ similarities[2] = Threshold
    /\ match_result # <<>>
    /\ match_result[1].match_score = Threshold

\* the key of a table entry ends with the input's city and state
SharesLocation(key) ==
    /\ Len(rsplit2(key, ", ")) = 3
    /\ rsplit2(key, ", ")[2] = UpperTrimmed(str(city))
    /\ rsplit2(key, ", ")[3] = UpperTrimmed(str(state))

\* C16: when the exact tier fails and no entry of the format table shares
\* the input's city and state, match_facility returns null, whatever the
\* organization name is (a missing one too), and it returns before the
\* fuzzy and similarity tiers: no similarity is computed.
C16_NoBucketNull ==
    (Called /\ ExactKey \notin DictKeys(email_formats)
        /\ \A key \in DictKeys(email_formats) : ~SharesLocation(key)) =>
        /\ match_result = <<>>
        /\ tiers_tried = <<"exact">>

\* a call with a missing organization name and a city that the table, which
\* is not empty, does not hold
C16_Witness ==
    /\ op = "match"
    /\ org_name = NaN
    /\ city = " shelbyville"
    /\ state = "IL"
    /\ DictKeys(email_formats) = {"ACME HEALTH, SPRINGFIELD, IL", "ACME HEATH INC, SPRINGFIELD, IL"}
    /\ match_result = <<>>
    /\ tiers_tried = <<"exact">>

\* C21: for an input whose facility key is not null (organization, city and
\* state all non-empty), match_facility never returns match_type
\* 'fuzzy_exact': a candidate of the bucket whose stored organization part
\* equals the input's normalized name has the input's exact key as its key,
\* so when the fuzzy_exact tier is reached no candidate has that name; a
\* record processed by process_single_record is never matched 'fuzzy_exact'.
C21_NeverFuzzyExact ==
    (Called /\ ExactKey # None) =>
        /\ match_result # <<>> => match_result[1].match_type # "fuzzy_exact"
        /\ \A i \in 1..Len(Candidates(email_formats, MatchLocation(city, state))) :
              Candidates(email_formats, MatchLocation(city, state))[i].org_name
                  = normalize_org_name(org_name)
              => Candidates(email_formats, MatchLocation(city, state))[i].key = ExactKey
        /\ op = "process" => result[1].match_type # "fuzzy_exact"

\* the fuzzy_exact tier was gone through for a record of "Acme Health, Inc."
\* while the bucket holds the similar name "ACME HEATH INC": it found nothing
C21_Witness ==
    /\ op = "process"
    /\ org_name = "Acme Health, Inc."
    /\ ExactKey = "ACME HEALTH INC, SPRINGFIELD, IL"
    /\ "ACME HEATH INC, SPRINGFIELD, IL" \in DictKeys(email_formats)
    /\ Len(tiers_tried) >= 2
    /\ tiers_tried[2] = "fuzzy_exact"
    /\ result[1].match_type = "tfidf"

\* C27: in every result of process_single_record, generated_email,
\* email_format_used and email_domain are all null or all non-null; they
\* are non-null only when match_type is non-null, and then
\* email_format_used and email_domain are the format and the domain of the
\* table entry that matched_facility names.
C27_EmailFieldsTogether ==
    op = "process" =>
        \/ /\ result[1].generated_email = None
           /\ result[1].email_format_used = None
           /\ result[1].email_domain = None
        \/ /\ result[1].generated_email # None
           /\ result[1].match_type # None
           /\ result[1].matched_facility \in DictKeys(email_formats)
           /\ result[1].email_format_used
                 = DictGet(email_formats, result[1].matched_facility).format
           /\ result[1].email_domain
                 = DictGet(email_formats, result[1].matched_facility).domain

\* a record matched by similarity to the second entry of a table of two
\* entries with different formats and domains
C27_Witness ==
    /\ op = "process"
    /\ Len(email_formats) = 2
    /\ email_formats[1].format # email_formats[2].format
    /\ email_formats[1].domain # email_formats[2].domain
    /\ result[1].match_type = "tfidf"
    /\ result[1].matched_facility = email_formats[2].key
    /\ result[1].generated_email # None
    /\ result[1].email_domain = email_formats[2].domain

\* ---------------------------------------------------------------------------
\* The text extractor: extract_formats_from_text_improved.  The regular
\* expressions are matched character by character on the snippet text.

Letters == LowerSet \cup UpperSet               \* [a-z] under re.IGNORECASE, [a-zA-Z]
Alnum == Letters \cup DigitSet                  \* [a-zA-Z0-9]
DomainChars == Alnum \cup {"-", "."}            \* [a-z0-9\-\.] under re.IGNORECASE
WordChars == Alnum \cup {"_"}                   \* \w, for \b

\* the index just after the longest run of characters of Class that starts
\* at index i: what a greedy Class* consumes from i
RunEnd(t, i, Class) ==
    Min({j \in i..Len(t) : Ch(t, j) \notin Class} \cup {Len(t) + 1})

\* the literal lit stands in t at index i
StartsAt(t, i, lit) ==
    /\ i >= 1
    /\ i + Len(lit) - 1 <= Len(t)
    /\ SubSeq(t, i, i + Len(lit) - 1) = lit

\* [a-z]+ sep [a-z]+ @ (or [a-z]+ @ when sep is "") whose first run of
\* letters ends before index e1: the index of the "@", or 0 when the text
\* does not go on that way
LocalEndAfter(t, e1, sep) ==
    IF sep = "" THEN (IF Ch(t, e1) = "@" THEN e1 ELSE 0)
    ELSE IF /\ Ch(t, e1) = sep
            /\ RunEnd(t, e1 + 1, Letters) > e1 + 1
            /\ Ch(t, RunEnd(t, e1 + 1, Letters)) = "@"
         THEN RunEnd(t, e1 + 1, Letters)
         ELSE 0

\* the same from index p, where the local part starts
LocalEnd(t, p, sep) ==
    IF RunEnd(t, p, Letters) = p THEN 0 ELSE LocalEndAfter(t, RunEnd(t, p, Letters), sep)

\* re.search: of the tries at every index, [i |-> index, m |-> <<>> or
\* <<match>>], the match of the leftmost one that matched, <<>> when none did
Leftmost(tries) ==
    LET hits == {h \in tries : h.m # <<>>}
    IN  IF hits = {} THEN <<>>
        ELSE (CHOOSE h \in hits : \A g \in hits : h.i <= g.i).m

\* the candidate dictionary the extractor appends; group names the pattern
\* group that appended it
Candidate(format, domain, example, source_link, confidence, group) ==
    [format |-> format, domain |-> domain, example |-> example,
     source |-> source_link, confidence |-> confidence, group |-> group]

\* bracket_patterns: the literal prefixes (lower case, the match ignores
\* case), the separator of the example's local part, and the format name
bracket_patterns == <<
    [lits |-> {"[first].[last]"}, sep |-> ".", format |-> "[first].[last]"],
    [lits |-> {"[first]_[last]"}, sep |-> "_", format |-> "[first]_[last]"],
    [lits |-> {"[first]-[last]"}, sep |-> "-", format |-> "[first]-[last]"],
    [lits |-> {"[first_initial][last]"}, sep |-> "", format |-> "[first_initial][last]"],
    [lits |-> {"[first][last_initial]"}, sep |-> "", format |-> "[first][last_initial]"],
    [lits |-> {"format is [first]", "pattern is [first]"}, sep |-> "",
     format |-> "[first]"],
    [lits |-> {"format is [last]", "pattern is [last]"}, sep |-> "",
     format |-> "[last]"] >>

\* group(1) of a bracket pattern, local part from index b with its "@" at
\* index at (0: none): the local part, "@" and one or more domain characters
BracketExample(t, b, at) ==
    IF at # 0 /\ RunEnd(t, at + 1, DomainChars) > at + 1
    THEN <<SubSeq(t, b, RunEnd(t, at + 1, DomainChars) - 1)>>
    ELSE <<>>

\* a bracket pattern after its literal, from index a: \s*, "(ex.", \s*, group(1)
BracketFrom(t, lt, a, sep) ==
    IF StartsAt(lt, RunEnd(t, a, Whitespace), "(ex.")
    THEN BracketExample(t, RunEnd(t, RunEnd(t, a, Whitespace) + 4, Whitespace),
                        LocalEnd(t, RunEnd(t, RunEnd(t, a, Whitespace) + 4, Whitespace), sep))
    ELSE <<>>

\* one bracket pattern tried with its literal at index i of t (lt is t in
\* lower case): <<>> when it does not match there, else <<group(1)>>
BracketAt(t, lt, i, lit, sep) ==
    IF StartsAt(lt, i, lit) THEN BracketFrom(t, lt, i + Len(lit), sep) ELSE <<>>

\* re.search of one bracket pattern: the leftmost match's group(1), if any
BracketSearch(t, lt, pat) ==
    Leftmost({[i |-> i, m |-> BracketAt(t, lt, i, lit, pat.sep)] :
                i \in 1..Len(t), lit \in pat.lits})

\* the text after the first "@" of an e-mail address
DomainOf(email) == SubSeq(email, find(email, "@") + 1, Len(email))

\* what a bracket pattern appends: one candidate when it matched (m)
BracketAppend(m, format, source_link) ==
    IF m = <<>> THEN <<>>
    ELSE <<Candidate(format, DomainOf(lower(m[1])), lower(m[1]), source_link,
                     "high", "bracketed")>>

\* the loop over bracket_patterns from pattern k on: no break, every
\* pattern that matches appends
RECURSIVE BracketGroup(_, _, _, _)
BracketGroup(t, lt, source_link, k) ==
    IF k > Len(bracket_patterns) THEN <<>>
    ELSE BracketAppend(BracketSearch(t, lt, bracket_patterns[k]),
                       bracket_patterns[k].format, source_link)
            \o BracketGroup(t, lt, source_link, k + 1)

\* numbered_patterns, in the order they are tried: the shape of the local
\* part (separator, least length) and the format name
numbered_patterns == <<
    [sep |-> ".", least |-> 3, format |-> "[first].[last]"],
    [sep |-> "_", least |-> 3, format |-> "[first]_[last]"],
    [sep |-> "-", least |-> 3, format |-> "[first]-[last]"],
    [sep |-> "", least |-> 3, format |-> "[first_initial][last]"],
    [sep |-> "", least |-> 2, format |-> "[first]"] >>

\* the index of the last "." of t[lo..hi-1], 0 when there is none
LastDot(t, lo, hi) ==
    LET dots == {p \in lo..(hi - 1) : Ch(t, p) = "."}
    IN  IF dots = {} THEN 0 ELSE Max(dots)

\* a numbered pattern from its local part on (from index w, "@" at index
\* at, 0: none): ([a-z0-9\-\.]+\.[a-z]{2,}) , \s* , "(".  What follows the
\* domain is no domain character, so the domain is the whole run of domain
\* characters and must itself end in a dot and two or more letters.
\* <<>> when it does not match, else <<[local, domain]>>
NumberedFrom(t, w, at, least) ==
    LET r == RunEnd(t, at + 1, DomainChars)
        dot == LastDot(t, at + 1, RunEnd(t, at + 1, DomainChars))
    IN  IF /\ at # 0
           /\ at - w >= least
           /\ dot > at + 1
           /\ r - (dot + 1) >= 2
           /\ RunEnd(t, dot + 1, Letters) = r
           /\ Ch(t, RunEnd(t, r, Whitespace)) = "("
        THEN <<[local |-> SubSeq(t, w, at - 1), domain |-> SubSeq(t, at + 1, r - 1)]>>
        ELSE <<>>

\* one numbered pattern tried at index i: "1." , \s+ , then the rest
NumberedAt(t, i, pat) ==
    IF StartsAt(t, i, "1.") /\ RunEnd(t, i + 2, Whitespace) > i + 2
    THEN NumberedFrom(t, RunEnd(t, i + 2, Whitespace),
                      LocalEnd(t, RunEnd(t, i + 2, Whitespace), pat.sep), pat.least)
    ELSE <<>>

\* re.search of one numbered pattern: the leftmost match, if any
NumberedSearch(t, pat) ==
    Leftmost({[i |-> i, m |-> NumberedAt(t, i, pat)] : i \in 1..Len(t)})

\* what a numbered pattern does: when it matched (m) it appends one
\* candidate and the loop ends (break), else the loop goes on.  The groups
\* put back together are the local part as it stands in the text; the
\* example is lower-cased, the domain is not.
NumberedAppend(m, format, source_link, otherwise) ==
    IF m = <<>> THEN otherwise
    ELSE <<Candidate(format, m[1].domain, lower(m[1].local \o "@" \o m[1].domain),
                     source_link, "high", "numbered")>>

\* the loop over numbered_patterns from pattern k on
RECURSIVE NumberedGroup(_, _, _)
NumberedGroup(t, source_link, k) ==
    IF k > Len(numbered_patterns) THEN <<>>
    ELSE NumberedAppend(NumberedSearch(t, numbered_patterns[k]),
                        numbered_patterns[k].format, source_link,
                        NumberedGroup(t, source_link, k + 1))

\* leadiq_patterns: the literal (lower case, the match ignores case), the
\* format name and the local part of the made-up example.  The optional
\* "pattern of " / "format of " prefix never changes which occurrence is
\* found nor the captured domain, so it is left out.
leadiq_patterns == <<
    [lit |-> "flast@", format |-> "[first_initial][last]", local |-> "jdoe"],
    [lit |-> "first.last@", format |-> "[first].[last]", local |-> "jane.doe"],
    [lit |-> "first_last@", format |-> "[first]_[last]", local |-> "jane_doe"],
    [lit |-> "first-last@", format |-> "[first]-[last]", local |-> "jane-doe"],
    [lit |-> "firstlast@", format |-> "[first][last]", local |-> "janedoe"],
    [lit |-> "first@", format |-> "[first]", local |-> "jane"] >>

\* ([a-z0-9\-\.]+\.[a-z]{2,}) from index s0 with nothing required after it:
\* greedy, so it ends after the letters that follow the last dot of the run
\* that has a character before it and two letters after it.  <<>> or <<domain>>
GreedyDomain(t, s0) ==
    LET dots == {p \in (s0 + 1)..(RunEnd(t, s0, DomainChars) - 1) :
                    Ch(t, p) = "." /\ RunEnd(t, p + 1, Letters) - (p + 1) >= 2}
    IN  IF dots = {} THEN <<>>
        ELSE <<SubSeq(t, s0, RunEnd(t, Max(dots) + 1, Letters) - 1)>>

\* one leadiq pattern tried at index i
LeadiqAt(t, lt, i, lit) ==
    IF StartsAt(lt, i, lit) THEN GreedyDomain(t, i + Len(lit)) ELSE <<>>

\* re.search of one leadiq pattern: the leftmost match's group(1), if any
LeadiqSearch(t, lt, pat) ==
    Leftmost({[i |-> i, m |-> LeadiqAt(t, lt, i, pat.lit)] : i \in 1..Len(t)})

\* what a leadiq pattern appends: one candidate when it matched (m)
LeadiqAppend(m, pat, source_link) ==
    IF m = <<>> THEN <<>>
    ELSE <<Candidate(pat.format, lower(m[1]), pat.local \o "@" \o lower(m[1]),
                     source_link, "high", "capitalized")>>

\* the loop over leadiq_patterns from pattern k on: no break
RECURSIVE LeadiqGroup(_, _, _, _)
LeadiqGroup(t, lt, source_link, k) ==
    IF k > Len(leadiq_patterns) THEN <<>>
    ELSE LeadiqAppend(LeadiqSearch(t, lt, leadiq_patterns[k]), leadiq_patterns[k],
                      source_link)
            \o LeadiqGroup(t, lt, source_link, k + 1)

\* the number of times the character c stands in s
CountOf(s, c) == Cardinality({i \in 1..Len(s) : Ch(s, i) = c})

\* the separator branch of infer_format_from_local_part
InferSplit(local_part, c, format) ==
    IF /\ CountOf(local_part, c) = 1
       /\ find(local_part, c) - 1 > 1
       /\ Len(local_part) - find(local_part, c) > 1
    THEN format ELSE None

\* infer_format_from_local_part without the lower limit of three characters
infer_format_from_local_part_NoMinimum(local_part) ==
    IF find(local_part, ".") # 0 THEN InferSplit(local_part, ".", "[first].[last]")
    ELSE IF find(local_part, "_") # 0 THEN InferSplit(local_part, "_", "[first]_[last]")
    ELSE IF find(local_part, "-") # 0 THEN InferSplit(local_part, "-", "[first]-[last]")
    ELSE IF Len(local_part) <= 6 THEN "[first_initial][last]" ELSE "[first]"

infer_format_from_local_part(local_part) ==
    IF find(local_part, ".") # 0 THEN InferSplit(local_part, ".", "[first].[last]")
    ELSE IF find(local_part, "_") # 0 THEN InferSplit(local_part, "_", "[first]_[last]")
    ELSE IF find(local_part, "-") # 0 THEN InferSplit(local_part, "-", "[first]-[last]")
    ELSE IF Len(local_part) > 2
         THEN (IF Len(local_part) <= 6 THEN "[first_initial][last]" ELSE "[first]")
    ELSE None

\* the local part of the fallback e-mail pattern,
\* [a-zA-Z0-9]+(?:[._-][a-zA-Z0-9]+)?@ , whose first run ends before index
\* e1: the index of the "@", or 0
EmailLocalEnd(t, e1) ==
    IF Ch(t, e1) = "@" THEN e1
    ELSE IF /\ Ch(t, e1) \in {".", "_", "-"}
            /\ RunEnd(t, e1 + 1, Alnum) > e1 + 1
            /\ Ch(t, RunEnd(t, e1 + 1, Alnum)) = "@"
         THEN RunEnd(t, e1 + 1, Alnum)
         ELSE 0

\* the fallback pattern from index i with its "@" at index at (0: none):
\* ([a-zA-Z0-9.-]+\.[a-zA-Z]{2,})\b, greedy, so the domain ends after the
\* letters of the last dot that has two or more letters and then a word
\* boundary after it
EmailFrom(t, i, at) ==
    LET dots == {p \in (at + 2)..(RunEnd(t, at + 1, DomainChars) - 1) :
                    /\ Ch(t, p) = "."
                    /\ RunEnd(t, p + 1, Letters) - (p + 1) >= 2
                    /\ Ch(t, RunEnd(t, p + 1, Letters)) \notin WordChars}
    IN  IF at = 0 \/ dots = {} THEN <<>>
        ELSE <<[local |-> SubSeq(t, i, at - 1),
                domain |-> SubSeq(t, at + 1, RunEnd(t, Max(dots) + 1, Letters) - 1),
                end |-> RunEnd(t, Max(dots) + 1, Letters)]>>

\* the fallback e-mail pattern tried at index i:
\* \b([a-zA-Z0-9]+(?:[._-][a-zA-Z0-9]+)?)@([a-zA-Z0-9.-]+\.[a-zA-Z]{2,})\b
\* <<>> when it does not match there, else <<[local, domain, end]>> with
\* end the index just after the match
EmailAt(t, i) ==
    IF Ch(t, i) \in Alnum /\ Ch(t, i - 1) \notin WordChars
    THEN EmailFrom(t, i, EmailLocalEnd(t, RunEnd(t, i, Alnum)))
    ELSE <<>>

\* the next match of re.finditer from index pos on
EmailSearch(t, pos) ==
    Leftmost({[i |-> i, m |-> EmailAt(t, i)] : i \in pos..Len(t)})

\* the loop over re.finditer from index pos on: the first address whose
\* local part has an inferred format appends one candidate (break);
\* addresses without one are passed over (m is the next match)
RECURSIVE FallbackGroup(_, _, _)
RECURSIVE FallbackAppend(_, _, _)
\* the loop body without its break: every address with an inferred format
\* appends a candidate
FallbackAppend_NoBreak(t, source_link, m) ==
    IF m = <<>> THEN <<>>
    ELSE IF infer_format_from_local_part(lower(m[1].local)) # None
    THEN <<Candidate(infer_format_from_local_part(lower(m[1].local)), lower(m[1].domain),
                     lower(m[1].local) \o "@" \o lower(m[1].domain),
                     source_link, "medium", "fallback")>>
         \o FallbackGroup(t, source_link, m[1].end)
    ELSE FallbackGroup(t, source_link, m[1].end)

\* the loop body with an unconditional break: only the first address is
\* looked at, with or without an inferred format
FallbackAppend_StopAtFirst(t, source_link, m) ==
    IF m = <<>> THEN <<>>
    ELSE IF infer_format_from_local_part(lower(m[1].local)) # None
    THEN <<Candidate(infer_format_from_local_part(lower(m[1].local)), lower(m[1].domain),
                     lower(m[1].local) \o "@" \o lower(m[1].domain),
                     source_link, "medium", "fallback")>>
    ELSE <<>>

FallbackAppend(t, source_link, m) ==
    IF m = <<>> THEN <<>>
    ELSE IF infer_format_from_local_part(lower(m[1].local)) # None
    THEN <<Candidate(infer_format_from_local_part(lower(m[1].local)), lower(m[1].domain),
                     lower(m[1].local) \o "@" \o lower(m[1].domain),
                     source_link, "medium", "fallback")>>
    ELSE FallbackGroup(t, source_link, m[1].end)

FallbackGroup(t, source_link, pos) == FallbackAppend(t, source_link, EmailSearch(t, pos))

\* 'if not extracted': the fallback's result when groups 1-3 appended nothing
OrFallback(so_far, fallback) == IF so_far = <<>> THEN fallback ELSE so_far

\* the fallback run unconditionally
ExtractAll_FallbackAlways(t, lt, source_link) ==
    BracketGroup(t, lt, source_link, 1) \o NumberedGroup(t, source_link, 1)
        \o LeadiqGroup(t, lt, source_link, 1) \o FallbackGroup(t, source_link, 1)

\* the body of extract_formats_from_text_improved, lt the text in lower case:
\* the three pattern groups all run and append to one list; the fallback
\* runs only when that list is empty
ExtractAll(t, lt, source_link) ==
    OrFallback(BracketGroup(t, lt, source_link, 1) \o NumberedGroup(t, source_link, 1)
                    \o LeadiqGroup(t, lt, source_link, 1),
               FallbackGroup(t, source_link, 1))

extract_formats_from_text_improved(t, source_link) == ExtractAll(t, lower(t), source_link)

\* ---------------------------------------------------------------------------
\* Specification of the text extractor: a snippet is put together from a few
\* pieces of the kinds the search results hold, and extracted once.

\* one entry of a numbered list: rank, address, share
NumberedEntry(rank, email, share) ==
    [kind |-> "numbered", rank |-> rank, email |-> email,
     text |-> rank \o ". " \o email \o " (" \o share \o ")"]

Piece(kind, email, t) == [kind |-> kind, rank |-> "", email |-> email, text |-> t]

Pieces == {
    Piece("bracketed", "jane.doe@acme.com", "[first].[last] (ex. jane.doe@acme.com)"),
    Piece("bracketed", "JDoe@Acme.com", "[first_initial][last] (ex. JDoe@Acme.com)"),
    Piece("bracketed", "janedoe@acme.com", "[first][last] (ex. janedoe@acme.com)"),
    NumberedEntry("1", "jdoe@acme.com", "80%"),
    NumberedEntry("2", "jane.doe@acme.com", "20%"),
    NumberedEntry("11", "jane.doe@acme.com", "2%"),
    NumberedEntry("1", "Jane_Doe@ACME.com", "50%"),
    NumberedEntry("1", "first@domain.com", "33.3%"),
    Piece("capitalized", "FLast@acme.com", "typically follows the pattern of FLast@acme.com"),
    Piece("capitalized", "First.Last@Acme.org", "format of First.Last@Acme.org."),
    Piece("bare", "info@x.org", "Contact info@x.org"),
    Piece("bare", "j@x.org", "j@x.org"),
    Piece("bare", "Bob.Smith@x.org", "Bob.Smith@x.org,"),
    Piece("prose", "", "No format is known.") }

MaxPieces == 2

PieceLists == UNION {[1..n -> Pieces] : n \in 0..MaxPieces}

\* the pieces one after the other, a space between two
RECURSIVE Render(_)
Render(ps) ==
    IF ps = <<>> THEN ""
    ELSE IF Len(ps) = 1 THEN ps[1].text
    ELSE ps[1].text \o " " \o Render(Tail(ps))

SourceLinks == {"https://rocketreach.co/acme-health-email-format"}

InitExtract ==
    /\ org_name = NaN
    /\ city = NaN
    /\ state = NaN
    /\ facility_key = NotYet
    /\ op = "text"
    /\ KeyIdle
    /\ MatchIdle
    /\ fragments \in PieceLists
    /\ text = Render(fragments)
    /\ extracted = <<>>
    /\ SerperIdle
    /\ GenerateIdle
    /\ BatchIdle
    /\ InferIdle
    /\ CollectIdle
    /\ AgentIdle

ExtractFormats ==
    /\ op = "text"
    /\ \E source_link \in SourceLinks :
        \E r \in {extract_formats_from_text_improved(text, source_link)} :
            extracted' = r
    /\ op' = "extracted"
    /\ UNCHANGED <<key_vars, email_formats, first_name, last_name, match_result,
                   tiers_tried, similarities, result, fragments, text, serper_vars,
                   generate_vars, batch_vars, infer_vars, collect_vars, agent_vars>>

NextExtract == ExtractFormats

SpecExtract == InitExtract /\ [][NextExtract]_vars

\* the pattern groups in the order they run
GroupOrder == [bracketed |-> 1, numbered |-> 2, capitalized |-> 3, fallback |-> 4]

GroupsOf(list) == {list[i].group : i \in DOMAIN list}

\* C1 as stated: the returned list holds candidates of exactly one pattern
\* group; candidates of two different groups never appear in the same result.
C1_OneGroupOnly ==
    op = "extracted" => Cardinality(GroupsOf(extracted)) <= 1

\* C1 (amended): the bracketed, numbered and capitalized groups all run and
\* every candidate they produce is returned, in that group order, so
\* candidates of several of these groups can share a result; only the
\* fallback group is exclusive: a fallback candidate is returned only when
\* the three other groups produced nothing, and it is then the only one.
C1_OnlyFallbackIsExclusive ==
    op = "extracted" =>
        /\ \A i, j \in DOMAIN extracted :
            i < j => GroupOrder[extracted[i].group] <= GroupOrder[extracted[j].group]
        /\ "fallback" \in GroupsOf(extracted) => Len(extracted) = 1

\* a result with candidates of all three pattern groups
C1_Witness ==
    /\ op = "extracted"
    /\ GroupsOf(extracted) = {"bracketed", "numbered", "capitalized"}

\* C1, second witness: a result that the fallback group produced
C1_FallbackWitness ==
    /\ op = "extracted"
    /\ GroupsOf(extracted) = {"fallback"}
    /\ \E k \in DOMAIN fragments : fragments[k].kind = "bare"

NumberedCandidates == {i \in DOMAIN extracted : extracted[i].group = "numbered"}

\* C10: for text holding a numbered ranked list, the numbered group yields
\* at most one candidate, and that candidate is derived from an entry of
\* rank 1, never from an entry of another rank.
C10_NumberedOnlyFromRankOne ==
    op = "extracted" =>
        /\ Cardinality(NumberedCandidates) <= 1
        /\ \A i \in NumberedCandidates :
            \E k \in DOMAIN fragments :
                /\ fragments[k].kind = "numbered"
                /\ fragments[k].rank = "1"
                /\ extracted[i].example = lower(fragments[k].email)

HasKind(kind) == \E k \in DOMAIN fragments : fragments[k].kind = kind

\* C11: for a text that holds a bracketed template mention with its example
\* and a bare e-mail address elsewhere, the first candidate returned is the
\* bracket-derived one, of confidence high, and no candidate of the fallback
\* group is returned.
C11_BracketBeatsFallback ==
    (op = "extracted" /\ HasKind("bracketed") /\ HasKind("bare")) =>
        /\ extracted # <<>>
        /\ extracted[1].group = "bracketed"
        /\ extracted[1].confidence = "high"
        /\ "fallback" \notin GroupsOf(extracted)

\* C18: every candidate returned, of any pattern group and for any letter
\* case of the text, has a domain of lower-case characters only.
C18_DomainLowerCase ==
    op = "extracted" =>
        \A i \in DOMAIN extracted : extracted[i].domain = lower(extracted[i].domain)

\* what the bracketed, numbered and capitalized groups find in a text
PatternGroups(t) ==
    BracketGroup(t, lower(t), "", 1) \o NumberedGroup(t, "", 1)
        \o LeadiqGroup(t, lower(t), "", 1)

AllHigh(list) == \A i \in DOMAIN list : list[i].confidence = "high"

\* C12: a candidate of confidence medium is returned only when none of the
\* bracketed, numbered and capitalized groups matched the text, and the
\* result then has exactly one element; every candidate that these three
\* groups produce has confidence high.
C12_MediumOnlyFromFallback ==
    op = "extracted" =>
        /\ ~AllHigh(extracted) => (PatternGroups(text) = <<>> /\ Len(extracted) = 1)
        /\ AllHigh(PatternGroups(text))

\* a text with two different bare addresses, of which one is returned
C12_Witness ==
    /\ op = "extracted"
    /\ Len(fragments) = 2
    /\ fragments[1].kind = "bare" /\ fragments[2].kind = "bare"
    /\ infer_format_from_local_part(lower(fragments[2].email)) # None
    /\ extracted # <<>>
    /\ extracted[1].confidence = "medium"
    /\ extracted[1].example = lower(fragments[1].email)

\* the fragments that hold an e-mail address, in text order
WithEmail == {k \in DOMAIN fragments : fragments[k].email # ""}

LocalPart(email) == SubSeq(email, 1, find(email, "@") - 1)

\* the fragments whose address has a local part with an inferred format
Inferable ==
    {k \in WithEmail :
        infer_format_from_local_part(lower(LocalPart(fragments[k].email))) # None}

\* the fallback group ran: the three pattern groups produced nothing
FallbackRan == op = "extracted" /\ (extracted = <<>> \/ GroupsOf(extracted) = {"fallback"})

C24_BareNameIsFirst ==
    (/\ op = "extracted"
     /\ fragments # <<>>
     /\ fragments[1].kind = "numbered"
     /\ fragments[1].rank = "1"
     /\ fragments[1].email = "first@domain.com") =>
        /\ NumberedCandidates # {}
        /\ \A i \in NumberedCandidates :
            /\ extracted[i].example = "first@domain.com"
            /\ extracted[i].format = "[first]"

\* ---------------------------------------------------------------------------
\* Specification of the format inference: infer_format_from_local_part is
\* applied to one local part, as the fallback group hands it over (group 1
\* of its pattern, in lower case).

\* the local parts are the pieces of these that the fallback pattern's
\* group 1, [a-zA-Z0-9]+(?:[._-][a-zA-Z0-9]+)?, can match
Stems == {"janedoe12", "jane.does", "ja_nedoe1", "j-anedoe", "jd.e_f-g"}

Separators == {".", "_", "-"}

SeparatorsOf(s) == {i \in 1..Len(s) : Ch(s, i) \in Separators}

LocalParts ==
    {p \in UNION {{SubSeq(stem, i, j) : i \in 1..Len(stem), j \in 1..Len(stem)} :
                      stem \in Stems} :
        /\ p # ""
        /\ Cardinality(SeparatorsOf(p)) <= 1
        /\ 1 \notin SeparatorsOf(p)
        /\ Len(p) \notin SeparatorsOf(p)}

InitInfer ==
    /\ org_name = NaN
    /\ city = NaN
    /\ state = NaN
    /\ facility_key = NotYet
    /\ op = "local_part"
    /\ KeyIdle
    /\ MatchIdle
    /\ ExtractIdle
    /\ SerperIdle
    /\ GenerateIdle
    /\ BatchIdle
    /\ email_local \in LocalParts
    /\ inferred_format = NotYet
    /\ CollectIdle
    /\ AgentIdle

InferFormat ==
    /\ op = "local_part"
    /\ inferred_format' = infer_format_from_local_part(email_local)
    /\ op' = "inferred"
    /\ UNCHANGED <<key_vars, email_formats, first_name, last_name, match_result,
                   tiers_tried, similarities, result, extract_vars, serper_vars,
                   generate_vars, batch_vars, email_local, collect_vars, agent_vars>>

NextInfer == InferFormat

SpecInfer == InitInfer /\ [][NextInfer]_vars

\* the local part holds none of '.', '_' and '-'
NoSeparator == SeparatorsOf(email_local) = {}

\* C23 as stated: every local part without '.', '_' or '-' is classified by
\* length alone: at most 6 characters give [first_initial][last], more give
\* [first].
C23_ByLengthAlone ==
    (op = "inferred" /\ NoSeparator) =>
        inferred_format = IF Len(email_local) <= 6 THEN "[first_initial][last]"
                          ELSE "[first]"

\* C23 (amended): a local part without '.', '_' or '-' is classified by
\* length alone, whatever its characters (letters or digits): 3 to 6
\* characters give [first_initial][last], 7 or more give [first], and 1 or
\* 2 characters give no format at all (null).
C23_ByLengthFromThree ==
    (op = "inferred" /\ NoSeparator) =>
        inferred_format = IF Len(email_local) <= 2 THEN None
                          ELSE IF Len(email_local) <= 6 THEN "[first_initial][last]"
                          ELSE "[first]"

\* a local part of two characters, for which nothing is inferred
C23_Witness ==
    /\ op = "inferred"
    /\ email_local = "ja"
    /\ inferred_format = None

\* ---------------------------------------------------------------------------
\* The source prioritizer: extract_formats_from_serper_results.

AnswerLink == "https://rocketreach.co/acme-health-email-format"

OrganicLinks == {
    "https://rocketreach.co/acme-health-email-format",
    "https://leadiq.com/c/acme-health",
    "https://contactout.com/company/acme-health",
    "https://www.signalhire.com/companies/acme-health",
    "https://www.acmehealth.org/contact" }

OtherLink == "https://leadiq.com/c/mercy-clinic"

\* snippets: one with two candidates (bracketed first), one with one
\* candidate, one with none
TwoFormats == "[first].[last] (ex. jane.doe@acme.com) 1. jdoe@acme.com (80%)"
OneFormat == "Acme Health typically follows the pattern of FLast@acmehealth.org"
NoFormat == "Acme Health is a clinic in Springfield."

Snippets == {TwoFormats, OneFormat, NoFormat}

\* extract_formats_from_text_improved on the snippets and links of the
\* specification, evaluated once
Extracted ==
    [t \in Snippets |->
        [l \in OrganicLinks \cup {AnswerLink, OtherLink} |->
            extract_formats_from_text_improved(t, l)]]

\* best_match and best_priority; match is <<>> for None
Best(match, priority) == [match |-> match, priority |-> priority]

\* formats[0] with its source_type set
Tagged(formats, source_type) ==
    <<[format |-> formats[1].format, domain |-> formats[1].domain,
       example |-> formats[1].example, source |-> formats[1].source,
       confidence |-> formats[1].confidence, group |-> formats[1].group,
       source_type |-> source_type]>>

\* what the extractor finds in the snippet of an answer box or organic result
FormatsOf(item) == Extracted[item.snippet][item.link]

\* 'if formats:' the first candidate becomes the best match, with this
\* source type and priority; else the best match stays
IfFormats(formats, source_type, priority, best) ==
    IF formats # <<>> THEN Best(Tagged(formats, source_type), priority) ELSE best

\* the answer box given the weight of the best known organic source
AnswerBox_Weight80(search_results) ==
    IF search_results.answerBox = <<>> THEN Best(<<>>, 0)
    ELSE IfFormats(FormatsOf(search_results.answerBox[1]), "answerBox", 80, Best(<<>>, 0))

\* the answer box step: answerBox is <<>> when the key is missing or empty
AnswerBox(search_results) ==
    IF search_results.answerBox = <<>> THEN Best(<<>>, 0)
    ELSE IfFormats(FormatsOf(search_results.answerBox[1]), "answerBox", 100, Best(<<>>, 0))

\* 'sub' in s
Contains(s, sub) == find(s, sub) # 0

\* the priority with the boost of the first result given to every result
Priority_BoostEvery(link, position) ==
    (IF Contains(link, "rocketreach.co") THEN 80
     ELSE IF Contains(link, "leadiq.com") THEN 70
     ELSE IF Contains(link, "contactout.com") THEN 60
     ELSE IF Contains(link, "signalhire.com") THEN 50
     ELSE 0)
    + 10

\* the priority of an organic result; position counts from 0
Priority(link, position) ==
    (IF Contains(link, "rocketreach.co") THEN 80
     ELSE IF Contains(link, "leadiq.com") THEN 70
     ELSE IF Contains(link, "contactout.com") THEN 60
     ELSE IF Contains(link, "signalhire.com") THEN 50
     ELSE 0)
    + (IF position = 0 THEN 10 ELSE 0)

\* the loop with 'priority >= best_priority': a later result of the same
\* priority replaces the best match
RECURSIVE Organic_NotStrict(_, _, _)
Organic_NotStrict(organic, k, best) ==
    IF k > Len(organic) THEN best
    ELSE Organic_NotStrict(organic, k + 1,
                 IF Priority(organic[k].link, k - 1) >= best.priority
                 THEN IfFormats(FormatsOf(organic[k]), "organic",
                                Priority(organic[k].link, k - 1), best)
                 ELSE best)

\* the loop over the organic results from index k (position k - 1) on: the
\* snippet is extracted only when the priority is higher than the best
RECURSIVE Organic(_, _, _)
Organic(organic, k, best) ==
    IF k > Len(organic) THEN best
    ELSE Organic(organic, k + 1,
                 IF Priority(organic[k].link, k - 1) > best.priority
                 THEN IfFormats(FormatsOf(organic[k]), "organic",
                                Priority(organic[k].link, k - 1), best)
                 ELSE best)

\* the organic results are looked at when the answer box left no match, or
\* one of priority below 90
OrganicIfBelow90(best, organic) ==
    IF best.match = <<>> \/ best.priority < 90
    THEN Organic(organic, 1, best).match
    ELSE best.match

\* best_match for one entry's search results
BestMatch(search_results) ==
    OrganicIfBelow90(AnswerBox(search_results), search_results.organic)

\* the loop body that stores a record for every facility with results, an
\* empty one (null format and domain) when there is no best match
PutBestMatch_Always(table, entry, best_match) ==
    IF entry.results = <<>> THEN table
    ELSE IF best_match = <<>>
    THEN DictPut(table, [key |-> entry.facility, value |-> [format |-> None, domain |-> None]])
    ELSE DictPut(table, [key |-> entry.facility, value |-> best_match[1]])

\* the loop body: entry.results is <<>> for a search without results
\* (null), else <<search_results>>; the best match, when there is one, is
\* stored under the facility
PutBestMatch(table, entry, best_match) ==
    IF entry.results = <<>> \/ best_match = <<>> THEN table
    ELSE DictPut(table, [key |-> entry.facility, value |-> best_match[1]])

\* the loop over the entries of the results file
RECURSIVE extract_formats_from_serper_results(_)
extract_formats_from_serper_results(entries) ==
    IF entries = <<>> THEN <<>>
    ELSE PutBestMatch(extract_formats_from_serper_results(SubSeq(entries, 1, Len(entries) - 1)),
                      entries[Len(entries)],
                      BestMatch(entries[Len(entries)].results[1]))

\* ---------------------------------------------------------------------------
\* Specification of the source prioritizer: a results file of one or two
\* entries (the search script writes one entry per distinct facility) is
\* turned into the format table in one call.

MaxOrganic == 2

AnswerBoxes == {<<>>} \cup {<<[snippet |-> t, link |-> AnswerLink]>> : t \in {TwoFormats, NoFormat}}

OrganicResults == {[link |-> l, snippet |-> t] : l \in OrganicLinks, t \in {OneFormat, NoFormat}}

OrganicLists == UNION {[1..n -> OrganicResults] : n \in 0..MaxOrganic}

SearchResults == {[answerBox |-> a, organic |-> o] : a \in AnswerBoxes, o \in OrganicLists}

Facility == "ACME HEALTH, SPRINGFIELD, IL"
OtherFacility == "MERCY CLINIC, SHELBYVILLE, IL"

Entries == {[facility |-> Facility, results |-> r] :
                r \in {<<>>} \cup {<<sr>> : sr \in SearchResults}}

OtherEntries == {
    [facility |-> OtherFacility, results |-> <<>>],
    [facility |-> OtherFacility,
     results |-> <<[answerBox |-> <<>>,
                    organic |-> <<[link |-> OtherLink, snippet |-> OneFormat]>>]>>] }

ResultsFiles == {<<e>> : e \in Entries} \cup {<<e, o>> : e \in Entries, o \in OtherEntries}

InitSerper ==
    /\ org_name = NaN
    /\ city = NaN
    /\ state = NaN
    /\ facility_key = NotYet
    /\ op = "results"
    /\ KeyIdle
    /\ MatchIdle
    /\ ExtractIdle
    /\ results \in ResultsFiles
    /\ serper_formats = <<>>
    /\ GenerateIdle
    /\ BatchIdle
    /\ InferIdle
    /\ CollectIdle
    /\ AgentIdle

ExtractFormatsFromSerperResults ==
    /\ op = "results"
    /\ \E r \in {extract_formats_from_serper_results(results)} : serper_formats' = r
    /\ op' = "formats"
    /\ UNCHANGED <<key_vars, email_formats, first_name, last_name, match_result,
                   tiers_tried, similarities, result, extract_vars, results,
                   generate_vars, batch_vars, infer_vars, collect_vars, agent_vars>>

NextSerper == ExtractFormatsFromSerperResults

SpecSerper == InitSerper /\ [][NextSerper]_vars

\* what the answer box of an entry yields, <<>> when it has none
AnswerBoxFormats(entry) ==
    IF entry.results = <<>> \/ entry.results[1].answerBox = <<>> THEN <<>>
    ELSE FormatsOf(entry.results[1].answerBox[1])

\* C6: for every facility whose answer-box snippet yields a candidate, the
\* record stored in the format table is the first candidate of the answer
\* box with source_type 'answerBox', whatever the organic results hold.
C6_AnswerBoxWins ==
    op = "formats" =>
        \A i \in DOMAIN results :
            AnswerBoxFormats(results[i]) # <<>> =>
                /\ results[i].facility \in DictKeys(serper_formats)
                /\ DictGet(serper_formats, results[i].facility).value
                     = Tagged(AnswerBoxFormats(results[i]), "answerBox")[1]

\* an answer box with candidates next to a first organic result of the
\* best known source that has a candidate too
C6_Witness ==
    /\ op = "formats"
    /\ \E i \in DOMAIN results :
        /\ Len(AnswerBoxFormats(results[i])) = 2
        /\ results[i].results[1].organic # <<>>
        /\ Priority(results[i].results[1].organic[1].link, 0) = 90
        /\ results[i].results[1].organic[1].snippet = OneFormat
        /\ DictGet(serper_formats, results[i].facility).value.format = "[first].[last]"
        /\ DictGet(serper_formats, results[i].facility).value.source_type = "answerBox"

\* an organic result of the entry that is extracted when nothing was found
\* before it (its priority is above 0) yields a candidate
OrganicYields(entry) ==
    /\ entry.results # <<>>
    /\ \E k \in DOMAIN entry.results[1].organic :
        /\ Priority(entry.results[1].organic[k].link, k - 1) > 0
        /\ FormatsOf(entry.results[1].organic[k]) # <<>>

\* C15: a facility is a key of the format table if and only if its answer
\* box or one of its considered organic results yielded a candidate; a
\* facility without results or without a candidate has no entry, and no
\* stored entry has a null format or domain.
C15_StoredIffExtracted ==
    op = "formats" =>
        /\ \A i \in DOMAIN results :
            results[i].facility \in DictKeys(serper_formats)
                <=> (AnswerBoxFormats(results[i]) # <<>> \/ OrganicYields(results[i]))
        /\ DictKeys(serper_formats) \subseteq {results[i].facility : i \in DOMAIN results}
        /\ \A f \in DictKeys(serper_formats) :
            /\ DictGet(serper_formats, f).value.format # None
            /\ DictGet(serper_formats, f).value.domain # None

\* a facility whose only snippet with a candidate is in an organic result
\* that is not extracted, next to a facility that is stored
C15_Witness ==
    /\ op = "formats"
    /\ Len(results) = 2
    /\ results[1].results # <<>>
    /\ results[1].results[1].answerBox = <<>>
    /\ Len(results[1].results[1].organic) = 2
    /\ results[1].results[1].organic[1].snippet = NoFormat
    /\ results[1].results[1].organic[2].snippet = OneFormat
    /\ Priority(results[1].results[1].organic[2].link, 1) = 0
    /\ DictKeys(serper_formats) = {results[2].facility}

\* the indices of the organic results that have a positive priority and
\* yield a candidate
Yielding(organic) ==
    {k \in DOMAIN organic :
        Priority(organic[k].link, k - 1) > 0 /\ FormatsOf(organic[k]) # <<>>}

\* of these the earliest one of the highest priority
BestYielding(organic) ==
    Min({k \in Yielding(organic) :
            \A j \in Yielding(organic) :
                Priority(organic[j].link, j - 1) <= Priority(organic[k].link, k - 1)})

\* C20: when the answer box yields nothing, the record stored for a
\* facility is the first candidate of the organic result that has the
\* highest priority among those with a positive priority and a candidate,
\* the earliest position winning ties, with source_type 'organic'; when
\* there is no such result nothing is stored.
C20_BestOrganicStored ==
    op = "formats" =>
        \A i \in DOMAIN results :
            (results[i].results # <<>> /\ AnswerBoxFormats(results[i]) = <<>>) =>
                IF Yielding(results[i].results[1].organic) = {}
                THEN results[i].facility \notin DictKeys(serper_formats)
                ELSE /\ results[i].facility \in DictKeys(serper_formats)
                     /\ DictGet(serper_formats, results[i].facility).value
                          = Tagged(FormatsOf(results[i].results[1].organic[
                                BestYielding(results[i].results[1].organic)]), "organic")[1]

\* two organic results of the same priority 70, each with a candidate: the
\* first one is stored
C20_Witness ==
    /\ op = "formats"
    /\ results[1].results # <<>>
    /\ results[1].results[1].answerBox # <<>>
    /\ AnswerBoxFormats(results[1]) = <<>>
    /\ Len(results[1].results[1].organic) = 2
    /\ Yielding(results[1].results[1].organic) = {1, 2}
    /\ Priority(results[1].results[1].organic[1].link, 0) = 70
    /\ Priority(results[1].results[1].organic[2].link, 1) = 70
    /\ DictGet(serper_formats, results[1].facility).value.source
          = results[1].results[1].organic[1].link
    /\ DictGet(serper_formats, results[1].facility).value.source_type = "organic"

\* the four known lookup domains
KnownSources == {"rocketreach.co", "leadiq.com", "contactout.com", "signalhire.com"}

\* the organic results after the first whose link is of no known source
Unranked(organic) ==
    {k \in DOMAIN organic :
        k > 1 /\ \A d \in KnownSources : ~Contains(organic[k].link, d)}

\* C25: an organic result that is not the first and whose link belongs to
\* none of the four known lookup domains is never selected (its priority 0
\* is not above the initial best priority 0): a stored organic record is
\* the candidate of another organic result, and a facility whose only
\* snippets with a candidate are in such results has no entry in the table.
C25_UnknownLaterNeverSelected ==
    op = "formats" =>
        \A i \in DOMAIN results :
            results[i].results # <<>> =>
                LET organic == results[i].results[1].organic
                    ranked == (DOMAIN organic) \ Unranked(organic)
                IN  /\ (/\ results[i].facility \in DictKeys(serper_formats)
                         /\ DictGet(serper_formats, results[i].facility).value.source_type
                                = "organic") =>
                            \E k \in ranked :
                                /\ FormatsOf(organic[k]) # <<>>
                                /\ DictGet(serper_formats, results[i].facility).value
                                      = Tagged(FormatsOf(organic[k]), "organic")[1]
                    /\ (/\ AnswerBoxFormats(results[i]) = <<>>
                         /\ \A k \in ranked : FormatsOf(organic[k]) = <<>>) =>
                            results[i].facility \notin DictKeys(serper_formats)

\* the only snippet with a candidate is the second organic result, of an
\* unknown source, after a first result of the best known source and an
\* answer box that both hold no format: the table stays empty
C25_Witness ==
    /\ op = "formats"
    /\ Len(results) = 1
    /\ results[1].results # <<>>
    /\ results[1].results[1].answerBox # <<>>
    /\ AnswerBoxFormats(results[1]) = <<>>
    /\ Len(results[1].results[1].organic) = 2
    /\ Contains(results[1].results[1].organic[1].link, "rocketreach.co")
    /\ FormatsOf(results[1].results[1].organic[1]) = <<>>
    /\ Unranked(results[1].results[1].organic) = {2}
    /\ FormatsOf(results[1].results[1].organic[2]) # <<>>
    /\ serper_formats = <<>>

-----------------------------------------------------------------------------
(* Specification of the e-mail generator: the arguments are drawn in Init, *)
(* the action applies generate_email once.                                 *)

\* the templates of the enumeration
Templates ==
    {"[first].[last]", "[first_initial][last]", "[first][last_initial]", "[first]",
     "[last]", "[first]_[last]", "[first]-[last]", "[first][last]"}

\* templates that generate_email does not know
OtherTemplates == {"[last].[first]", "[First].[Last]", ""}

\* names of a row: missing (NaN, None), empty, blank, with characters that
\* are no letters, without any letter
GenerateNames ==
    {NaN, None, "", " ", "Jane", "Doe", "Mary-Jane", "O'Brien", " de la Cruz ",
     "J", "3M", "42"}

Domains == {"acme.com"}

InitGenerate ==
    /\ org_name = NaN
    /\ city = NaN
    /\ state = NaN
    /\ facility_key = NotYet
    /\ KeyIdle
    /\ email_formats = <<>>
    /\ first_name \in GenerateNames
    /\ last_name \in GenerateNames
    /\ op = "names"
    /\ match_result = <<>>
    /\ tiers_tried = <<>>
    /\ similarities = <<>>
    /\ result = <<>>
    /\ ExtractIdle
    /\ SerperIdle
    /\ format_template \in Templates \cup OtherTemplates
    /\ domain_name \in Domains
    /\ generated = NotYet
    /\ BatchIdle
    /\ InferIdle
    /\ CollectIdle
    /\ AgentIdle

GenerateEmail ==
    /\ op = "names"
    /\ \E email \in {generate_email(first_name, last_name, format_template, domain_name)} :
        generated' = email
    /\ op' = "generated"
    /\ UNCHANGED <<key_vars, email_formats, first_name, last_name, match_result,
                   tiers_tried, similarities, result, extract_vars, serper_vars,
                   format_template, domain_name, batch_vars, infer_vars, collect_vars,
                   agent_vars>>

NextGenerate == GenerateEmail

SpecGenerate == InitGenerate /\ [][NextGenerate]_vars

\* the name is missing or empty
MissingName(v) == v \in {NaN, None, ""}

\* the name holds at least one letter
HoldsLetter(v) ==
    ~MissingName(v) /\ \E i \in 1..Len(v) : Ch(v, i) \in LowerSet \cup UpperSet

\* C13: generate_email returns null exactly when a name is missing or
\* empty, a name is empty after cleaning (it holds no letter), or the
\* template is not one of the eight; with a template of the enumeration and
\* two names that hold a letter each it returns an address.
C13_NullExactlyWhenUnusable ==
    op = "generated" =>
        /\ generated = None <=>
              \/ MissingName(first_name) \/ MissingName(last_name)
              \/ ~HoldsLetter(first_name) \/ ~HoldsLetter(last_name)
              \/ format_template \notin Templates
        /\ (format_template \in Templates /\ HoldsLetter(first_name) /\ HoldsLetter(last_name))
              => (generated # None /\ Len(generated) > Len("@" \o domain_name))

\* two usable names and a template that is not known: null
C13_Witness ==
    /\ op = "generated"
    /\ first_name = "Mary-Jane" /\ last_name = "O'Brien"
    /\ format_template = "[last].[first]"
    /\ generated = None

\* the names as they are after cleaning, written out by hand
CleanedOf ==
    [n \in GenerateNames \ {NaN, None} |->
        CASE n = "Jane" -> "jane"
          [] n = "Doe" -> "doe"
          [] n = "Mary-Jane" -> "maryjane"
          [] n = "O'Brien" -> "obrien"
          [] n = " de la Cruz " -> "delacruz"
          [] n = "J" -> "j"
          [] n = "3M" -> "m"
          [] OTHER -> ""]

\* the template with its tags replaced by the names and their initials
Filled(template, first, last) ==
    replace(replace(replace(replace(template,
        "[first_initial]", SubSeq(first, 1, 1)), "[last_initial]", SubSeq(last, 1, 1)),
        "[first]", first), "[last]", last)

\* C14: for each of the eight templates generate_email gives the template
\* filled with the cleaned names, then "@" and the domain; cleaning puts a
\* name in lower case and deletes what is no letter, without splitting the
\* name there: ("Mary-Jane", "O'Brien", "[first].[last]", "acme.com") gives
\* "maryjane.obrien@acme.com".
C14_RendersCleanedNames ==
    (op = "generated" /\ format_template \in Templates
        /\ HoldsLetter(first_name) /\ HoldsLetter(last_name)) =>
        /\ generated = Filled(format_template, CleanedOf[first_name], CleanedOf[last_name])
                            \o "@" \o domain_name
        /\ (first_name = "Mary-Jane" /\ last_name = "O'Brien"
                /\ format_template = "[first].[last]" /\ domain_name = "acme.com")
              => generated = "maryjane.obrien@acme.com"

C14_Witness ==
    /\ op = "generated"
    /\ first_name = "Mary-Jane" /\ last_name = "O'Brien"
    /\ format_template = "[first].[last]"
    /\ generated = "maryjane.obrien@acme.com"

-----------------------------------------------------------------------------
(* The batch run, process_admin_data: the rows are handed in chunks to the *)
(* processes of a pool, each of which works on its own copy of the format  *)
(* table; the results come back in the order of the rows and are written  *)
(* to the rows by their index.                                             *)

\* chunksize=1000 of pool.imap, scaled down
ChunkSize == 2

\* row_data with every chunk's index starting at 0 again
RowData_ChunkIndex(df) ==
    [i \in 1..Len(df) |-> [idx |-> (i - 1) % ChunkSize, row |-> df[i].row]]

\* row_data = [(idx, row) for idx, row in admin_df.iterrows()], the index
\* being 0, 1, ... after reset_index
RowData(df) == [i \in 1..Len(df) |-> [idx |-> i - 1, row |-> df[i].row]]

\* the tasks pool.imap makes of row_data: consecutive chunks of chunksize
Chunks(data, chunksize) ==
    [j \in 1..((Len(data) + chunksize - 1) \div chunksize) |->
        SubSeq(data, (j - 1) * chunksize + 1, Min({j * chunksize, Len(data)}))]

\* the results of the chunks one after the other, as imap yields them
RECURSIVE Flatten(_)
Flatten(lists) ==
    IF lists = <<>> THEN <<>> ELSE lists[1] \o Flatten(Tail(lists))

\* the scores of the candidates the similarity tier scores for this row
SimsFor(row, formats, scores) ==
    SubSeq(scores, 1, Len(ScoredCandidates(formats, row.org, row.city, row.state)))

\* stats at the start
NoStats == [exact |-> 0, fuzzy_exact |-> 0, tfidf |-> 0, unmatched |-> 0,
            emails_generated |-> 0]

\* the update with 'unmatched' counted for every result without an e-mail
UpdateStats_UnmatchedWithoutEmail(st, res) ==
    [st EXCEPT !.emails_generated = IF res.generated_email # None THEN @ + 1 ELSE @,
               !.exact = IF res.match_type = "exact" THEN @ + 1 ELSE @,
               !.fuzzy_exact = IF res.match_type = "fuzzy_exact" THEN @ + 1 ELSE @,
               !.tfidf = IF res.match_type = "tfidf" THEN @ + 1 ELSE @,
               !.unmatched = IF res.generated_email = None THEN @ + 1 ELSE @]

\* the update of the statistics for one result
UpdateStats(st, res) ==
    [st EXCEPT !.emails_generated = IF res.generated_email # None THEN @ + 1 ELSE @,
               !.exact = IF res.match_type = "exact" THEN @ + 1 ELSE @,
               !.fuzzy_exact = IF res.match_type = "fuzzy_exact" THEN @ + 1 ELSE @,
               !.tfidf = IF res.match_type = "tfidf" THEN @ + 1 ELSE @,
               !.unmatched = IF res.match_type = None THEN @ + 1 ELSE @]

\* admin_df.at[idx, column] = result[column] for the seven output columns
ApplyResultTo(df, res) == [df EXCEPT ![res.idx + 1].out = res.fields]

\* the formats file of the batch and the table main loads from it
BatchFile == <<
    <<"ACME HEALTH, SPRINGFIELD, IL", [format |-> "[first].[last]", domain |-> "acme.com"]>>,
    <<"Acme Heath Inc, Springfield, IL", [format |-> "[first]_[last]", domain |-> "heath.com"]>> >>

BatchTable == load_email_formats(BatchFile)

BatchRow(org, c, s, first, last) ==
    [org |-> org, city |-> c, state |-> s, first |-> first, last |-> last]

\* rows of the admin file: one with an exact key, one that only the
\* similarity tier can match and that has no last name, and rows without
\* organization name, city, state
BatchRows == {
    BatchRow("Acme Health", "Springfield", "IL", "Jane", "Doe"),
    BatchRow("Acme Health, Inc.", "Springfield", "IL", "Jane", NaN),
    BatchRow(NaN, "Springfield", "IL", "Jane", "Doe"),
    BatchRow("Acme Health", None, "IL", "Jane", "Doe"),
    BatchRow("Acme Health", "Springfield", NaN, "Jane", "Doe") }

\* cosine_similarity for the two candidates of Springfield: library results
BatchScores == {<<Threshold - 1, Threshold - 1>>, <<Threshold, Threshold - 1>>}

\* the number of rows of the admin file
MaxRows == 3

BatchFrames == UNION {[1..n -> BatchRows] : n \in 0..MaxRows}

WorkerCounts == {1, 2}

\* process_single_record on each row alone, with the table as main loaded it
Processed ==
    [row \in BatchRows |->
        [scores \in BatchScores |->
            process_single_record(row, BatchTable, Threshold,
                                  SimsFor(row, BatchTable, scores)).result]]

InitBatch ==
    /\ org_name = NaN
    /\ city = NaN
    /\ state = NaN
    /\ facility_key = NotYet
    /\ KeyIdle
    /\ email_formats = BatchTable
    /\ first_name = NaN
    /\ last_name = NaN
    /\ op = "rows"
    /\ match_result = <<>>
    /\ tiers_tried = <<>>
    /\ similarities = <<>>
    /\ result = <<>>
    /\ ExtractIdle
    /\ SerperIdle
    /\ GenerateIdle
    /\ \E rows \in BatchFrames :
        admin_df = [i \in 1..Len(rows) |-> [row |-> rows[i], out |-> NoResult]]
    /\ n_workers \in WorkerCounts
    /\ cosine \in BatchScores
    /\ row_data = <<>>
    /\ taken = <<>>
    /\ outputs = <<>>
    /\ batch_results = <<>>
    /\ applied = 0
    /\ stats = NoStats
    /\ InferIdle
    /\ CollectIdle
    /\ AgentIdle

\* row_data is built and the pool started: every chunk is queued
PrepareRowData ==
    /\ op = "rows"
    /\ row_data' = Chunks(RowData(admin_df), ChunkSize)
    /\ taken' = [j \in DOMAIN row_data' |-> 0]
    /\ outputs' = [j \in DOMAIN row_data' |-> <<>>]
    /\ op' = "pool"
    /\ UNCHANGED <<key_vars, email_formats, first_name, last_name, match_result, tiers_tried,
                   similarities, result, extract_vars, serper_vars, generate_vars,
                   admin_df, n_workers, cosine, batch_results, applied, stats, infer_vars,
                   collect_vars, agent_vars>>

\* a worker is idle when it has finished every chunk it took
Idle(w) == \A j \in DOMAIN taken : taken[j] = w => Len(outputs[j]) = Len(row_data[j])

\* an idle worker takes the next chunk of the task queue
TakeChunk ==
    /\ op = "pool"
    /\ \E w \in 1..n_workers :
        /\ Idle(w)
        /\ \E j \in DOMAIN taken :
            /\ taken[j] = 0
            /\ \A i \in 1..(j - 1) : taken[i] # 0
            /\ taken' = [taken EXCEPT ![j] = w]
    /\ UNCHANGED <<key_vars, match_vars, extract_vars, serper_vars, generate_vars,
                   admin_df, n_workers, cosine, row_data, outputs, batch_results,
                   applied, stats, infer_vars, collect_vars, agent_vars>>

\* a worker calls process_single_record on the next row of its chunk, with
\* its own copy of email_formats and threshold
ProcessRecord ==
    /\ op = "pool"
    /\ \E j \in DOMAIN taken :
        /\ taken[j] # 0
        /\ Len(outputs[j]) < Len(row_data[j])
        /\ outputs' = [outputs EXCEPT ![j] = Append(@,
                [idx |-> row_data[j][Len(outputs[j]) + 1].idx,
                 fields |-> Processed[row_data[j][Len(outputs[j]) + 1].row][cosine]])]
    /\ UNCHANGED <<key_vars, match_vars, extract_vars, serper_vars, generate_vars,
                   admin_df, n_workers, cosine, row_data, taken, batch_results,
                   applied, stats, infer_vars, collect_vars, agent_vars>>

\* results = list(pool.imap(...)): every chunk is done, the results are
\* delivered in the order of the chunks
CollectResults ==
    /\ op = "pool"
    /\ \A j \in DOMAIN row_data : Len(outputs[j]) = Len(row_data[j])
    /\ batch_results' = Flatten(outputs)
    /\ op' = "apply"
    /\ UNCHANGED <<key_vars, email_formats, first_name, last_name, match_result, tiers_tried,
                   similarities, result, extract_vars, serper_vars, generate_vars,
                   admin_df, n_workers, cosine, row_data, taken, outputs, applied, stats,
                   infer_vars, collect_vars, agent_vars>>

\* one turn of the loop 'for result in results'
ApplyResult ==
    /\ op = "apply"
    /\ applied < Len(batch_results)
    /\ admin_df' = ApplyResultTo(admin_df, batch_results[applied + 1])
    /\ stats' = UpdateStats(stats, batch_results[applied + 1].fields)
    /\ applied' = applied + 1
    /\ UNCHANGED <<key_vars, match_vars, extract_vars, serper_vars, generate_vars,
                   n_workers, cosine, row_data, taken, outputs, batch_results, infer_vars,
                   collect_vars, agent_vars>>

NextBatch == PrepareRowData \/ TakeChunk \/ ProcessRecord \/ CollectResults \/ ApplyResult

SpecBatch == InitBatch /\ [][NextBatch]_vars

\* process_admin_data has applied every result
BatchDone == op = "apply" /\ applied = Len(batch_results)

\* the row has no organization name, no city or no state
MissingPart(row) == MissingName(row.org) \/ MissingName(row.city) \/ MissingName(row.state)

Unmatched == {i \in DOMAIN admin_df : admin_df[i].out.match_type = None}

\* C17: a record without organization name, city or state does not stop
\* the batch: every row gets its result, that record has a null
\* facility_key and null match and e-mail fields and is counted as
\* unmatched; a matched record without first or last name keeps its match
\* fields and has null generated_email, email_format_used and email_domain.
C17_MissingFieldsGiveNulls ==
    BatchDone =>
        /\ applied = Len(admin_df)
        /\ \A i \in DOMAIN admin_df :
            MissingPart(admin_df[i].row) => (admin_df[i].out = NoResult /\ i \in Unmatched)
        /\ stats.unmatched = Cardinality(Unmatched)
        /\ \A i \in DOMAIN admin_df \ Unmatched :
            (MissingName(admin_df[i].row.first) \/ MissingName(admin_df[i].row.last)) =>
                /\ admin_df[i].out.matched_facility # None
                /\ admin_df[i].out.match_score \in Threshold..ScoreOne
                /\ admin_df[i].out.generated_email = None
                /\ admin_df[i].out.email_format_used = None
                /\ admin_df[i].out.email_domain = None

\* a batch with a record without organization name between a matched record
\* without last name and a record that gets an e-mail
C17_Witness ==
    /\ BatchDone
    /\ Len(admin_df) = 3
    /\ admin_df[1].row.last = NaN /\ admin_df[1].out.match_type = "tfidf"
    /\ admin_df[2].row.org = NaN
    /\ admin_df[3].out.generated_email = "jane.doe@acme.com"
    /\ stats.unmatched = 1
    /\ stats.emails_generated = 1

\* C19: for any number of workers and any scheduling of the pool, after
\* process_admin_data the annotation fields of every row are what
\* process_single_record yields for that row alone against the initial
\* format table, each result is on the row of its own index, and the format
\* table is as it was before the batch.
C19_RowsIndependent ==
    BatchDone =>
        /\ \A i \in DOMAIN admin_df :
            admin_df[i].out = Processed[admin_df[i].row][cosine]
        /\ \A k \in DOMAIN batch_results :
            batch_results[k].fields = Processed[admin_df[batch_results[k].idx + 1].row][cosine]
        /\ email_formats = BatchTable

\* two workers, the second of which took the first chunk, and three rows
\* with three different results
C19_Witness ==
    /\ BatchDone
    /\ n_workers = 2
    /\ taken = <<2, 1>>
    /\ Len(admin_df) = 3
    /\ admin_df[1].out # admin_df[2].out
    /\ admin_df[1].out # admin_df[3].out
    /\ admin_df[2].out # admin_df[3].out

\* the records counted as matched
MatchedCount == stats.exact + stats.fuzzy_exact + stats.tfidf

\* C26: the statistics partition the batch: after every turn of the apply
\* loop, and so when process_admin_data returns, exact + fuzzy_exact +
\* tfidf + unmatched is the number of records processed, and
\* emails_generated is at most exact + fuzzy_exact + tfidf.
C26_StatsPartition ==
    /\ stats # <<>> =>
        /\ MatchedCount + stats.unmatched = applied
        /\ stats.emails_generated <= MatchedCount
    /\ BatchDone => MatchedCount + stats.unmatched = Len(admin_df)

\* a finished batch of three records: one exact and one similarity match,
\* one unmatched record, and one e-mail only
C26_Witness ==
    /\ BatchDone
    /\ Len(admin_df) = 3
    /\ stats.exact = 1
    /\ stats.tfidf = 1
    /\ stats.unmatched = 1
    /\ stats.emails_generated = 1

-----------------------------------------------------------------------------
(* The search collector: serper_email_search.py.  main submits one task    *)
(* per facility to a thread pool; the threads read the cache dict that the *)
(* main thread writes while it collects the finished tasks.                *)

\* the query process_facility makes of a facility string
MakeQuery(facility) ==
    IF Len(rsplit2(facility, ", ")) = 3
    THEN rsplit2(facility, ", ")[1] \o " " \o rsplit2(facility, ", ")[2] \o " "
            \o rsplit2(facility, ", ")[3] \o " email format"
    ELSE facility \o " email format"

\* values of the column full_name_city_state
FacilityStrings == {"ACME HEALTH, SPRINGFIELD, IL", "MERCY CLINIC, SHELBYVILLE, IL",
                    "Lone Clinic", "ACME HEALTH, INC., SPRINGFIELD, IL"}

\* the queries of these facilities, made once
Query == [facility \in FacilityStrings |-> MakeQuery(facility)]

\* result_data of a search: the response is <<>> for None (request failed)
ResultData(facility, response) ==
    IF response # <<>>
    THEN [facility |-> facility, query |-> Query[facility], results |-> response]
    ELSE [facility |-> facility, query |-> Query[facility], results |-> <<>>,
          error |-> "API request failed"]

\* the cache lookup by the query string instead of the facility string
CacheLookup_ByQuery(c, facility) ==
    IF Query[facility] \in DictKeys(c)
    THEN <<[facility |-> facility, query |-> Query[facility], cached |-> TRUE,
            from_cache |-> DictGet(c, Query[facility]).value]>>
    ELSE <<>>

\* 'if facility in cache': what process_facility returns on a hit, <<>> on
\* a miss
CacheLookup(c, facility) ==
    IF facility \in DictKeys(c)
    THEN <<[facility |-> facility, query |-> Query[facility], cached |-> TRUE,
            from_cache |-> DictGet(c, facility).value]>>
    ELSE <<>>

\* what process_facility returns after the API was queried
Searched(facility, response) ==
    [facility |-> facility, query |-> Query[facility], cached |-> FALSE,
     data |-> ResultData(facility, response)]

\* the column without dropping its duplicates
drop_duplicates_Keep(column) == column

\* Series.drop_duplicates: the first occurrence of every value, in order
drop_duplicates(column) ==
    LET RECURSIVE Go(_)
        Go(i) ==
            IF i > Len(column) THEN <<>>
            ELSE IF \E j \in 1..(i - 1) : column[j] = column[i] THEN Go(i + 1)
            ELSE <<column[i]>> \o Go(i + 1)
    IN  Go(1)

\* .head(n)
head(list, n) == SubSeq(list, 1, Min({n, Len(list)}))

\* ---------------------------------------------------------------------------
\* Specification of the search collector: one run of main.

\* the number of rows of the column
MaxColumn == 3

Columns == UNION {[1..n -> FacilityStrings] : n \in 0..MaxColumn}

\* --num-facilities
NumFacilities == {2, MaxColumn}

\* --workers
ThreadCounts == {1, 2}

\* what the API answers: nothing (the request failed) or search results
Responses == {<<>>, <<[answerBox |-> <<>>,
                       organic |-> <<[link |-> OtherLink, snippet |-> OneFormat]>>]>>}

\* the entry that an earlier run left in the cache file for a facility
CachedEntry(facility) ==
    [key |-> facility,
     value |-> ResultData(facility, <<[answerBox |-> <<>>, organic |-> <<>>]>>)]

\* the cache files: an earlier run searched some of the facilities
CacheFiles ==
    {<<>>,
     <<CachedEntry("ACME HEALTH, SPRINGFIELD, IL")>>,
     <<CachedEntry("Lone Clinic")>>,
     <<CachedEntry("MERCY CLINIC, SHELBYVILLE, IL"), CachedEntry("Lone Clinic")>>,
     <<CachedEntry("ACME HEALTH, SPRINGFIELD, IL"), CachedEntry("MERCY CLINIC, SHELBYVILLE, IL"),
       CachedEntry("Lone Clinic")>>}

\* main up to the submission of the tasks: the cache is loaded, the
\* facilities are read, every task is queued
InitCollect ==
    /\ org_name = NaN
    /\ city = NaN
    /\ state = NaN
    /\ facility_key = NotYet
    /\ op = "submitted"
    /\ KeyIdle
    /\ MatchIdle
    /\ ExtractIdle
    /\ SerperIdle
    /\ GenerateIdle
    /\ BatchIdle
    /\ InferIdle
    /\ cache_file \in CacheFiles
    /\ cache = cache_file
    /\ \E column \in Columns, n \in NumFacilities :
        unique_facilities = head(drop_duplicates(column), n)
    /\ max_workers \in ThreadCounts
    /\ futures = [i \in DOMAIN unique_facilities |-> [state |-> "queued", result |-> <<>>]]
    /\ api_requests = <<>>
    /\ search_output = <<>>
    /\ api_calls = 0
    /\ cache_hits = 0
    /\ AgentIdle

\* the tasks a thread is working on
Running == {i \in DOMAIN futures : futures[i].state = "running"}

\* a free thread takes the oldest queued task and runs process_facility up
\* to the end of the cache check: a hit returns, a miss goes on to the API
CheckCache ==
    /\ op = "submitted"
    /\ Cardinality(Running) < max_workers
    /\ \E i \in DOMAIN futures :
        /\ futures[i].state = "queued"
        /\ \A j \in 1..(i - 1) : futures[j].state # "queued"
        /\ \E hit \in {CacheLookup(cache, unique_facilities[i])} :
            futures' = [futures EXCEPT ![i] =
                            IF hit # <<>> THEN [state |-> "done", result |-> hit]
                            ELSE [state |-> "running", result |-> <<>>]]
    /\ UNCHANGED <<key_vars, match_vars, extract_vars, serper_vars, generate_vars,
                   batch_vars, infer_vars, cache_file, cache, unique_facilities,
                   max_workers, api_requests, search_output, api_calls, cache_hits,
                   agent_vars>>

\* the thread has slept; it queries the API and returns the new result
QuerySerper ==
    /\ op = "submitted"
    /\ \E i \in Running, response \in Responses :
        /\ api_requests' = Append(api_requests, Query[unique_facilities[i]])
        /\ futures' = [futures EXCEPT ![i] =
                            [state |-> "done",
                             result |-> <<Searched(unique_facilities[i], response)>>]]
    /\ UNCHANGED <<key_vars, match_vars, extract_vars, serper_vars, generate_vars,
                   batch_vars, infer_vars, cache_file, cache, unique_facilities,
                   max_workers, search_output, api_calls, cache_hits, agent_vars>>

\* one turn of 'for future in as_completed(...)': a finished task is
\* collected; a new result is also put into the cache
CollectFuture ==
    /\ op = "submitted"
    /\ \E i \in DOMAIN futures :
        /\ futures[i].state = "done"
        /\ futures' = [futures EXCEPT ![i].state = "collected"]
        /\ IF futures[i].result[1].cached
           THEN /\ search_output' = Append(search_output, futures[i].result[1].from_cache)
                /\ cache_hits' = cache_hits + 1
                /\ UNCHANGED <<cache, api_calls, agent_vars>>
           ELSE /\ search_output' = Append(search_output, futures[i].result[1].data)
                /\ cache' = DictPut(cache, [key |-> unique_facilities[i],
                                            value |-> futures[i].result[1].data])
                /\ api_calls' = api_calls + 1
                /\ UNCHANGED cache_hits
    /\ UNCHANGED <<key_vars, match_vars, extract_vars, serper_vars, generate_vars,
                   batch_vars, infer_vars, cache_file, unique_facilities, max_workers,
                   api_requests, agent_vars>>

\* every task is collected: the cache is saved when there were new results
SaveCache ==
    /\ op = "submitted"
    /\ \A i \in DOMAIN futures : futures[i].state = "collected"
    /\ cache_file' = IF api_calls > 0 THEN cache ELSE cache_file
    /\ op' = "saved"
    /\ UNCHANGED <<key_vars, email_formats, first_name, last_name, match_result, tiers_tried,
                   similarities, result, extract_vars, serper_vars, generate_vars,
                   batch_vars, infer_vars, cache, unique_facilities, max_workers, futures,
                   api_requests, search_output, api_calls, cache_hits, agent_vars>>

NextCollect == CheckCache \/ QuerySerper \/ CollectFuture \/ SaveCache

SpecCollect == InitCollect /\ [][NextCollect]_vars

\* the number of API requests issued for a facility
RequestsFor(facility) ==
    Cardinality({k \in DOMAIN api_requests : api_requests[k] = Query[facility]})

\* the tasks whose process_facility has returned
Returned == {i \in DOMAIN futures : futures[i].state \in {"done", "collected"}}

\* C28: in one run of the collector, under any interleaving of the worker
\* threads and of the main thread's cache writes, a request is issued for a
\* facility if and only if it was absent from the cache loaded at the
\* start, at most one request is issued per facility, and the number of
\* results is cache_hits + api_calls, which is the number of facilities
\* once every task is collected.
C28_RequestIffNotCached ==
    /\ op = "submitted" =>
        \A i \in DOMAIN unique_facilities :
            /\ RequestsFor(unique_facilities[i]) <= 1
            /\ RequestsFor(unique_facilities[i]) = 1
                    => unique_facilities[i] \notin DictKeys(cache_file)
            /\ (i \in Returned /\ unique_facilities[i] \notin DictKeys(cache_file))
                    => RequestsFor(unique_facilities[i]) = 1
    /\ Len(search_output) = cache_hits + api_calls
    /\ op = "saved" =>
        /\ Len(search_output) = Len(unique_facilities)
        /\ Len(api_requests) = api_calls

\* two threads and three facilities of which one was cached: a new result
\* was written to the cache while another search was still running
C28_Witness ==
    /\ op = "submitted"
    /\ max_workers = 2
    /\ Len(unique_facilities) = 3
    /\ Len(cache_file) = 1
    /\ Len(cache) = 2
    /\ Running # {}
    /\ cache_hits = 1

-----------------------------------------------------------------------------
(* The discovery agent: EmailDiscoveryAgent of email_agent.py.  The time   *)
(* stamp 'searched_at' of a result is left out.                            *)

\* _create_cache_key: only the facility name is trimmed
create_cache_key(name, c, s) == strip(lower(name)) \o "|" \o lower(c) \o "|" \o lower(s)

\* the query of discover_email
ContactQuery(name, c, s) == "\"" \o name \o "\" " \o c \o " " \o s \o " contact email"

\* the result stored when the search gave nothing
NoSearchResults(name, c, s) ==
    [facility_name |-> name, city |-> c, state |-> s, emails |-> <<>>,
     confidence |-> "low", website |-> "", notes |-> "No search results found"]

\* what _extract_emails_with_ai returns without a client or after an error
\* (the two differ in 'source' only, which discover_email does not read)
NoExtraction == [emails |-> <<>>, confidence |-> "low"]

\* an answer of the model
Extraction ==
    [emails |-> <<"info@acmehealth.org">>, email_pattern |-> "firstname.lastname@acmehealth.org",
     domain |-> "acmehealth.org", confidence |-> "high",
     website |-> "https://www.acmehealth.org", notes |-> ""]

\* extraction.get(field, default)
GetOr(extraction, field, default) ==
    IF field \in DOMAIN extraction THEN extraction[field] ELSE default

\* the result made of an extraction
Discovered(name, c, s, extraction) ==
    [facility_name |-> name, city |-> c, state |-> s,
     emails |-> GetOr(extraction, "emails", <<>>),
     email_pattern |-> GetOr(extraction, "email_pattern", ""),
     domain |-> GetOr(extraction, "domain", ""),
     confidence |-> GetOr(extraction, "confidence", "low"),
     website |-> GetOr(extraction, "website", ""),
     notes |-> GetOr(extraction, "notes", "")]

\* the cache write that skips a result without e-mail addresses
CacheStore_OnlyWithEmails(d, k, res) ==
    IF res.emails = <<>> THEN d ELSE DictPut(d, [key |-> k, value |-> res])

\* self.cache[cache_key] = result
CacheStore(d, k, res) == DictPut(d, [key |-> k, value |-> res])

\* ---------------------------------------------------------------------------
\* Specification of the discovery agent: an agent is constructed, then
\* discover_email is called any number of times.

AgentNames == {"Acme Health", " ACME HEALTH ", "Mercy Clinic"}
AgentCities == {"Springfield", "springfield "}
AgentStates == {"IL"}

\* email_cache.json as an earlier run left it
AgentCacheFiles ==
    {<<>>,
     <<[key |-> "mercy clinic|springfield|il",
        value |-> NoSearchResults("Mercy Clinic", "Springfield", "IL")]>>}

\* the cache keys of these arguments, made once
CacheKeys ==
    [name \in AgentNames |-> [c \in AgentCities |-> [s \in AgentStates |->
        create_cache_key(name, c, s)]]]

InitAgent ==
    /\ org_name = NaN
    /\ city = NaN
    /\ state = NaN
    /\ facility_key = NotYet
    /\ op = "agent"
    /\ KeyIdle
    /\ MatchIdle
    /\ ExtractIdle
    /\ SerperIdle
    /\ GenerateIdle
    /\ BatchIdle
    /\ InferIdle
    /\ CollectIdle
    /\ serper_api_key \in BOOLEAN
    /\ openai_client \in BOOLEAN
    /\ email_cache_file \in AgentCacheFiles
    /\ self_cache = email_cache_file
    /\ searches_count = 0
    /\ api_calls_count = 0
    /\ web_searches = <<>>
    /\ facility_name = ""
    /\ discovered = <<>>

\* discover_email, the cache hit: the stored result is returned
CacheHit(k, name, c, s) ==
    /\ k \in DictKeys(self_cache)
    /\ discovered' = <<DictGet(self_cache, k).value>>
    /\ UNCHANGED <<self_cache, email_cache_file, searches_count, api_calls_count,
                   web_searches>>

\* discover_email, no search results: _search_web had no key (no request
\* is sent), or its request failed or found nothing
SearchEmpty(k, name, c, s) ==
    /\ k \notin DictKeys(self_cache)
    /\ \E outcome \in IF serper_api_key THEN {"error", "empty"} ELSE {"none"} :
        /\ web_searches' = IF outcome = "none" THEN web_searches
                           ELSE Append(web_searches,
                                       [key |-> k, query |-> ContactQuery(name, c, s)])
        /\ searches_count' = IF outcome = "empty" THEN searches_count + 1 ELSE searches_count
    /\ self_cache' = CacheStore(self_cache, k, NoSearchResults(name, c, s))
    /\ email_cache_file' = self_cache'
    /\ discovered' = <<NoSearchResults(name, c, s)>>
    /\ UNCHANGED api_calls_count

\* discover_email, search results found: they are handed to the model
\* (when there is a client), whose answer or failure makes the result
SearchFound(k, name, c, s) ==
    /\ k \notin DictKeys(self_cache)
    /\ serper_api_key
    /\ web_searches' = Append(web_searches,
                              [key |-> k, query |-> ContactQuery(name, c, s)])
    /\ searches_count' = searches_count + 1
    /\ \E extraction \in IF openai_client THEN {Extraction, NoExtraction}
                          ELSE {NoExtraction} :
        /\ api_calls_count' = IF extraction = Extraction THEN api_calls_count + 1
                              ELSE api_calls_count
        /\ self_cache' = CacheStore(self_cache, k, Discovered(name, c, s, extraction))
        /\ discovered' = <<Discovered(name, c, s, extraction)>>
    /\ email_cache_file' = self_cache'

\* a call of discover_email
DiscoverEmail ==
    /\ op = "agent"
    /\ \E name \in AgentNames, c \in AgentCities, s \in AgentStates :
        /\ facility_name' = name
        /\ city' = c
        /\ state' = s
        /\ \E k \in {CacheKeys[name][c][s]} :
            CacheHit(k, name, c, s) \/ SearchEmpty(k, name, c, s) \/ SearchFound(k, name, c, s)
    /\ UNCHANGED <<org_name, other_org, facility_key, other_key, reloaded_key, match_vars,
                   extract_vars, serper_vars, generate_vars, batch_vars, infer_vars,
                   collect_vars, serper_api_key, openai_client>>

NextAgent == DiscoverEmail

SpecAgent == InitAgent /\ [][NextAgent]_vars

\* the searches that calls for a cache key have sent
SearchesOf(k) == {i \in DOMAIN web_searches : web_searches[i].key = k}

\* the cache key of the call that ran last, and of the call of this step
LastKey == CacheKeys[facility_name][city][state]
NextKeyCalled == CacheKeys[facility_name'][city'][state']

\* at any time: no key has sent two searches, every key that has sent one
\* has its entry, and the last call returned the entry of its key
AtMostOneSearch ==
    /\ \A i, j \in DOMAIN web_searches :
        web_searches[i].key = web_searches[j].key => i = j
    /\ \A i \in DOMAIN web_searches : web_searches[i].key \in DictKeys(self_cache)
    /\ discovered # <<>> =>
        /\ LastKey \in DictKeys(self_cache)
        /\ discovered = <<DictGet(self_cache, LastKey).value>>
    /\ email_cache_file = self_cache

\* a call for a key that is in the cache returns the stored result, sends
\* no search, makes no AI call and leaves the cache as it is; a call for an
\* absent key stores an entry for it
HitLeavesCache ==
    IF NextKeyCalled \in DictKeys(self_cache)
    THEN /\ self_cache' = self_cache
         /\ web_searches' = web_searches
         /\ searches_count' = searches_count
         /\ api_calls_count' = api_calls_count
         /\ discovered' = <<DictGet(self_cache, NextKeyCalled).value>>
    ELSE /\ NextKeyCalled \in DictKeys(self_cache')
         /\ Len(self_cache') = Len(self_cache) + 1
         /\ Len(web_searches') <= Len(web_searches) + 1

====
